---------------------------- MODULE Spec2Model ----------------------------
(***************************************************************************)
(* Smart check-ins: the gating engine and the cycle orchestrator.          *)
(*                                                                         *)
(* Time.  A Date is a whole number of seconds since an epoch whose day 0   *)
(* is a Sunday, in UTC.  The process runs in the timezone TZ, whose        *)
(* offset from UTC is TzOffsetMinutes; Date#getHours, getMinutes, getDay   *)
(* and setHours read and write local wall-clock fields.                    *)
(*                                                                         *)
(* Strings.  A time-of-day string "HH:MM" is the tuple of its four digits. *)
(* A timestamp string is the tuple <<date, separator, secondOfDay>>, the   *)
(* separator being 0 for the blank of SQLite's 'YYYY-MM-DD HH:MM:SS' and 1 *)
(* for the 'T' of an ISO string.                                           *)
(*                                                                         *)
(* Optional values (T | null, T | undefined) are sequences of length 0     *)
(* or 1.                                                                   *)
(***************************************************************************)
EXTENDS Integers, Sequences, FiniteSets, TLC

\* ------------------------------------------------------------------ bounds

\* runCycle invocations in one run of the orchestrator
MaxInvocations == 2
\* times the clock advances in one run of the orchestrator
MaxTicks == 1
\* time-of-day grid of the checkGating inputs: NumTimes points a day
NumTimes == 3
\* time-of-day grid of the isInTimeRange inputs: NumRangeTimes points a day
NumRangeTimes == 6
\* time-of-day grid of the pickup times: NumPickupTimes points a day
NumPickupTimes == 2
\* the raw urgencies of the makeDecision inputs reach from -MaxRawUrgency
\* to MaxRawUrgency
MaxRawUrgency == 15
\* a fetch returns at most MaxItems items
MaxItems == 2
\* check-ins logged in one run of the cooldown
MaxCheckins == 1
\* times the clock advances in one run of the cooldown
MaxAdvances == 2
\* callbacks and calls on the snooze store in one run
MaxStoreCalls == 2
\* hours that pass in one run of the snooze store
MaxSnoozeHours == 3

\* the buttons sent in a run of the callback ids
MaxButtons == 2

\* --------------------------------------------------------- program constants

\* TZ = America/New_York (standard time) unless the environment sets it,
\* in minutes east of UTC
TZ == -300

SecondsPerDay == 24 * 60 * 60
MinutesPerDay == 24 * 60

VARIABLES
    now,              \* the wall clock, a Date
    _isRunning,       \* scheduler.ts: the single-flight guard
    _isPaused,        \* bot/index.ts: the pause flag
    _lastCycleResult, \* scheduler.ts: the last completed cycle's result
    checkin_log,      \* db: the rows of table checkin_log, oldest first
    snoozed_items,    \* db: the rows of table snoozed_items, oldest first
    inv,              \* the runCycle invocations
    ticks,            \* clock advances so far
    main,             \* index.ts: where main() is
    world,            \* what the mail/calendar/task services and the
                      \* decision service answer in this run
    gatingInput,      \* checkGating evaluation: its arguments
    gatingOutput,     \* checkGating evaluation: its result
    rangeInput,       \* isInTimeRange evaluation: its arguments
    rangeOutput,      \* isInTimeRange evaluation: its result
    engineInput,      \* makeDecision evaluation: what the messages API answered
    engineOutput,     \* makeDecision evaluation: its result
    fetches,          \* collectContext run: the promises of the three fetchers
    collectRun,       \* collectContext run: the runCycle invocation it is in
    storeCalls,       \* the callbacks and calls on the snooze store so far
    _idMap,           \* callback-store: the short ids and their full ids
    email_tracking,   \* db: the rows of table email_tracking, oldest first
    keyboard          \* the buttons of the notifications sent to the chat

\* the offset of the timezone the process runs in, minutes east of UTC
TzOffsetMinutes == world.tz

vars == <<now, _isRunning, _isPaused, _lastCycleResult, checkin_log,
          snoozed_items, inv, ticks, main, world, gatingInput, gatingOutput,
          rangeInput, rangeOutput, engineInput, engineOutput, fetches, collectRun,
          storeCalls, _idMap, email_tracking, keyboard>>

orchestratorVars == <<now, _isRunning, _isPaused, _lastCycleResult,
                      checkin_log, snoozed_items, inv, ticks, main, world>>
gatingVars == <<gatingInput, gatingOutput>>
rangeVars == <<rangeInput, rangeOutput>>
engineVars == <<engineInput, engineOutput>>
collectVars == <<fetches, collectRun>>
botVars == <<_idMap, email_tracking, keyboard>>

\* ------------------------------------------------------------ Date helpers

\* the local wall clock of a Date, in seconds since the epoch
LocalSeconds(date) == date + TzOffsetMinutes * 60

\* the Date whose local wall clock reads `local`
DateOfLocal(local) == local - TzOffsetMinutes * 60

getHours(date) == (LocalSeconds(date) \div 3600) % 24

getMinutes(date) == (LocalSeconds(date) \div 60) % 60

\* 0 = Sunday, 6 = Saturday
getDay(date) == (LocalSeconds(date) \div SecondsPerDay) % 7

\* Number#toString().padStart(2, "0") of a number below 100
padStart2(n) == <<n \div 10, n % 10>>

\* SQLite datetime('now'): 'YYYY-MM-DD HH:MM:SS', in UTC
datetimeNow(date) == <<date \div SecondsPerDay, 0, date % SecondsPerDay>>

\* Date#toISOString(): 'YYYY-MM-DDTHH:MM:SS.sssZ', in UTC
toISOString(date) == <<date \div SecondsPerDay, 1, date % SecondsPerDay>>

\* new Date(string): a string with the 'T' and the Z designator is UTC; the
\* blank-separated form carries no designator and is read as local time
DateParse(str) ==
    IF str[2] = 1
    THEN str[1] * SecondsPerDay + str[3]
    ELSE DateOfLocal(str[1] * SecondsPerDay + str[3])

\* ------------------------------------------------------------------ gating

formatTime(date) == padStart2(getHours(date)) \o padStart2(getMinutes(date))

parseTime(timeStr) ==
    [hours |-> timeStr[1] * 10 + timeStr[2],
     minutes |-> timeStr[3] * 10 + timeStr[4]]

timeToMinutes(timeStr) ==
    parseTime(timeStr).hours * 60 + parseTime(timeStr).minutes

\* variant: the end minute of a window is inside it
isInTimeRange_EndInclusive(current, start, end) ==
    LET currentMin == timeToMinutes(current)
        startMin == timeToMinutes(start)
        endMin == timeToMinutes(end)
    IN  IF startMin > endMin
        THEN currentMin >= startMin \/ currentMin <= endMin
        ELSE currentMin >= startMin /\ currentMin <= endMin

\* variant: a window that crosses midnight is not handled
isInTimeRange_NoWrap(current, start, end) ==
    LET currentMin == timeToMinutes(current)
        startMin == timeToMinutes(start)
        endMin == timeToMinutes(end)
    IN  currentMin >= startMin /\ currentMin < endMin

isInTimeRange(current, start, end) ==
    LET currentMin == timeToMinutes(current)
        startMin == timeToMinutes(start)
        endMin == timeToMinutes(end)
    IN  IF startMin > endMin
        THEN currentMin >= startMin \/ currentMin < endMin
        ELSE currentMin >= startMin /\ currentMin < endMin

\* (target - now) / (1000 * 60) is a fraction of a minute; this is the same
\* quantity in seconds, target being `now` with its local hours and minutes
\* set and its seconds cleared
secondsUntilTime(date, timeStr) ==
    LET local == LocalSeconds(date)
        target == (local \div SecondsPerDay) * SecondsPerDay
                  + parseTime(timeStr).hours * 3600
                  + parseTime(timeStr).minutes * 60
    IN  target - local

\* variant: the start of the pickup window is outside it
pickupMatch_OpenStart(config, date) ==
    LET hits == SelectSeq(config.pickupTimes,
                    LAMBDA pickupTime :
                        /\ secondsUntilTime(date, pickupTime) >= 0
                        /\ secondsUntilTime(date, pickupTime)
                               < config.pickupReminderMinutes * 60)
    IN  IF hits = <<>> THEN <<>> ELSE <<hits[1]>>

\* the first pickup time whose window holds `now`, if any
pickupMatch(config, date) ==
    LET hits == SelectSeq(config.pickupTimes,
                    LAMBDA pickupTime :
                        /\ secondsUntilTime(date, pickupTime) >= 0
                        /\ secondsUntilTime(date, pickupTime)
                               <= config.pickupReminderMinutes * 60)
    IN  IF hits = <<>> THEN <<>> ELSE <<hits[1]>>

\* (now - lastCheckinDate) / (1000 * 60), in seconds
secondsSinceLastCheckin(date, lastCheckin) == date - DateParse(lastCheckin)

\* Math.round of seconds / 60: the nearest minute, halves upward
roundMinutes(seconds) == (seconds + 30) \div 60

Proceed == [status |-> "PROCEED", reason |-> [kind |-> "none", args |-> <<>>]]

Blocked(kind, args) ==
    [status |-> "BLOCKED", reason |-> [kind |-> kind, args |-> args]]

\* rules 1 to 4 of checkGating: the rules decided before the store is read
gatingBeforeCooldown(config, date) ==
    LET currentTime == formatTime(date)
        dayOfWeek == getDay(date)
        isWeekend == dayOfWeek = 0 \/ dayOfWeek = 6
    IN  IF isInTimeRange(currentTime, config.focusHours.start, config.focusHours.end)
        THEN Blocked("Focus hours", <<config.focusHours.start, config.focusHours.end>>)
        ELSE IF isInTimeRange(currentTime, config.quietHours.start, config.quietHours.end)
        THEN Blocked("Quiet hours", <<config.quietHours.start, config.quietHours.end>>)
        ELSE IF isWeekend /\ config.weekendMode = "quiet"
        THEN Blocked("Weekend quiet mode", <<>>)
        ELSE IF pickupMatch(config, date) # <<>>
        THEN Blocked("Pickup window", pickupMatch(config, date))
        ELSE Proceed

\* rule 5 of checkGating: lastCheckin is what getLastCheckinTimestamp read
gatingCooldown(config, date, lastCheckin) ==
    IF lastCheckin # <<>>
       /\ secondsSinceLastCheckin(date, lastCheckin[1]) < config.cooldownMinutes * 60
    THEN Blocked("Cooldown",
                 <<roundMinutes(secondsSinceLastCheckin(date, lastCheckin[1])),
                   config.cooldownMinutes>>)
    ELSE Proceed

\* whether checkGating reaches its read of the last check-in timestamp
readsLastCheckin(config, date) ==
    gatingBeforeCooldown(config, date).status = "PROCEED"

\* variant: the quiet hours are tested before the focus hours
checkGating_QuietFirst(config, date, lastCheckin) ==
    LET currentTime == formatTime(date)
    IN  IF isInTimeRange(currentTime, config.quietHours.start, config.quietHours.end)
        THEN Blocked("Quiet hours", <<config.quietHours.start, config.quietHours.end>>)
        ELSE IF gatingBeforeCooldown(config, date).status = "BLOCKED"
        THEN gatingBeforeCooldown(config, date)
        ELSE gatingCooldown(config, date, lastCheckin)

checkGating(config, date, lastCheckin) ==
    IF gatingBeforeCooldown(config, date).status = "BLOCKED"
    THEN gatingBeforeCooldown(config, date)
    ELSE gatingCooldown(config, date, lastCheckin)

HHMM(minuteOfDay) == padStart2(minuteOfDay \div 60) \o padStart2(minuteOfDay % 60)

DEFAULT_GATING_CONFIG ==
    [cooldownMinutes |-> 120,
     urgencyOverrideThreshold |-> 9,
     quietHours |-> [start |-> <<2, 2, 0, 0>>, end |-> <<0, 7, 0, 0>>],
     focusHours |-> [start |-> <<0, 7, 0, 0>>, end |-> <<1, 0, 0, 0>>],
     pickupTimes |-> <<>>,
     pickupReminderMinutes |-> 30,
     weekendMode |-> "reduced",
     weekendUrgencyThreshold |-> 7]

\* --------------------------------------------------------------- the store

\* the order of two timestamp strings as SQLite compares TEXT: character
\* by character, the blank before the 'T'
TimestampLess(a, b) ==
    \/ a[1] < b[1]
    \/ a[1] = b[1] /\ a[2] < b[2]
    \/ a[1] = b[1] /\ a[2] = b[2] /\ a[3] < b[3]

\* SELECT timestamp FROM checkin_log ORDER BY timestamp DESC LIMIT 1
getLastCheckinTimestamp(log) ==
    IF log = <<>>
    THEN <<>>
    ELSE LET stamps == {log[i].timestamp : i \in DOMAIN log}
         IN  <<CHOOSE s \in stamps : \A other \in stamps : ~TimestampLess(s, other)>>

\* SELECT ... FROM checkin_log ORDER BY timestamp DESC LIMIT 1: the rows that
\* getRecentCheckins(1) can return first; rows of one timestamp are in no
\* defined order
getRecentCheckins(log) ==
    {log[i] : i \in {j \in DOMAIN log :
                        \A k \in DOMAIN log :
                            ~TimestampLess(log[j].timestamp, log[k].timestamp)}}

\* bot/index.ts 401-431: what the /status command reports of the cycles, the
\* time of the last check-in and its decision; the uptime, the database
\* size and the fixed source lines carry nothing of a cycle's outcome
statusCommand(log) ==
    IF log = <<>>
    THEN {[lastCycleTime |-> <<>>, lastDecision |-> <<>>]}
    ELSE {[lastCycleTime |-> getLastCheckinTimestamp(log),
           lastDecision |-> <<recent.decision>>] :
              recent \in getRecentCheckins(log)}

\* INSERT INTO checkin_log (decision, urgency, summary, sources_available);
\* the timestamp column defaults to datetime('now')
logCheckin(log, decision, urgency, summary, sourcesAvailable, date) ==
    Append(log, [timestamp |-> datetimeNow(date),
                 decision |-> decision,
                 urgency |-> urgency,
                 summary |-> summary,
                 sources_available |-> sourcesAvailable])

max2(a, b) == IF a >= b THEN a ELSE b
min2(a, b) == IF a <= b THEN a ELSE b

\* variant: a second snooze of an item adds a row
snoozeItem_AddsRow(rows, sourceType, sourceId, snoozeUntil, date) ==
    Append(rows, [source_type |-> sourceType,
                  source_id |-> sourceId,
                  snooze_until |-> snoozeUntil,
                  created_at |-> datetimeNow(date)])

\* INSERT INTO snoozed_items ... ON CONFLICT(source_type, source_id)
\* DO UPDATE SET snooze_until = ?
snoozeItem(rows, sourceType, sourceId, snoozeUntil, date) ==
    IF \E i \in DOMAIN rows :
           rows[i].source_type = sourceType /\ rows[i].source_id = sourceId
    THEN [i \in DOMAIN rows |->
             IF rows[i].source_type = sourceType /\ rows[i].source_id = sourceId
             THEN [rows[i] EXCEPT !.snooze_until = snoozeUntil]
             ELSE rows[i]]
    ELSE Append(rows, [source_type |-> sourceType,
                       source_id |-> sourceId,
                       snooze_until |-> snoozeUntil,
                       created_at |-> datetimeNow(date)])

\* SELECT id FROM snoozed_items WHERE source_type = ? AND source_id = ?
\* AND snooze_until > datetime('now')
isSnoozed(rows, sourceType, sourceId, date) ==
    \E i \in DOMAIN rows :
        /\ rows[i].source_type = sourceType
        /\ rows[i].source_id = sourceId
        /\ TimestampLess(datetimeNow(date), rows[i].snooze_until)

\* DELETE FROM snoozed_items WHERE snooze_until <= datetime('now')
cleanExpiredSnoozes(rows, date) ==
    SelectSeq(rows, LAMBDA row : TimestampLess(datetimeNow(date), row.snooze_until))

\* INSERT OR IGNORE INTO email_tracking (conversation_id); first_seen defaults
\* to datetime('now'), last_notified to NULL, reply_detected to 0
trackEmail(rows, conversationId, date) ==
    IF \E i \in DOMAIN rows : rows[i].conversation_id = conversationId
    THEN rows
    ELSE Append(rows, [conversation_id |-> conversationId,
                       first_seen |-> datetimeNow(date),
                       last_notified |-> <<>>,
                       reply_detected |-> 0])

\* UPDATE email_tracking SET last_notified = datetime('now')
\* WHERE conversation_id = ?
markEmailNotified(rows, conversationId, date) ==
    [i \in DOMAIN rows |->
        IF rows[i].conversation_id = conversationId
        THEN [rows[i] EXCEPT !.last_notified = <<datetimeNow(date)>>]
        ELSE rows[i]]

\* UPDATE email_tracking SET reply_detected = 1 WHERE conversation_id = ?
markEmailReplied(rows, conversationId) ==
    [i \in DOMAIN rows |->
        IF rows[i].conversation_id = conversationId
        THEN [rows[i] EXCEPT !.reply_detected = 1]
        ELSE rows[i]]

\* ---------------------------------------------------------------- callbacks

\* the ids of the items that buttons are made for; the last two are ids
\* whose SHA-256 digests start with the same eight hex digits
FullIds == {"conversation-1", "task-1", "email-1", "task-93411", "task-137700"}

\* crypto.createHash("sha256").update(fullId).digest("hex").slice(0, 8)
sha256hex8(fullId) ==
    IF fullId = "conversation-1" THEN "413055e0"
    ELSE IF fullId = "task-1" THEN "7afaa346"
    ELSE IF fullId = "email-1" THEN "4a777af7"
    ELSE IF fullId = "task-93411" THEN "dd808717"
    ELSE IF fullId = "task-137700" THEN "dd808717"
    ELSE "00000000"

\* callback-store shortenId: _idMap after _idMap.set(hash, fullId); the
\* hash is what the call returns
shortenId(map, fullId) ==
    LET hash == sha256hex8(fullId)
    IN  [shortId \in DOMAIN map \cup {hash} |->
            IF shortId = hash THEN fullId ELSE map[shortId]]

\* bot/index.ts 1017-1045: the callback data of a button, its two-letter
\* action and the short id; snooze_all and force_check carry no id
shortenCallbackData(button) ==
    IF button.action \in {"snooze_all", "force_check"}
    THEN [action |-> button.action, arg |-> ""]
    ELSE [action |-> IF button.action = "snooze_email:" THEN "se:"
                     ELSE IF button.action = "snooze_task:" THEN "st:"
                     ELSE IF button.action = "mark_read:" THEN "mr:"
                     ELSE IF button.action = "create_task:" THEN "ct:"
                     ELSE "dr:",
          arg |-> sha256hex8(button.arg)]

\* the buttons of the notifications that were sent before a run starts:
\* snooze the first email's conversation, snooze the first task, mark the
\* first email read
SentButtons ==
    <<[action |-> "snooze_email:", arg |-> "conversation-1"],
      [action |-> "snooze_task:", arg |-> "task-1"],
      [action |-> "mark_read:", arg |-> "email-1"]>>

SentKeyboard ==
    [i \in DOMAIN SentButtons |->
        [button |-> SentButtons[i], data |-> shortenCallbackData(SentButtons[i])]]

\* callback-store: _idMap once those notifications were sent
SentIdMap ==
    shortenId(shortenId(shortenId(<<>>, "conversation-1"), "task-1"), "email-1")

\* _idMap.get(shortId) ?? shortId
resolveId(shortId) ==
    IF shortId \in DOMAIN _idMap THEN _idMap[shortId] ELSE shortId

\* the expiry a button writes: new Date(Date.now() + hours).toISOString()
snoozeUntilOf(date, hours) == toISOString(date + hours * 60 * 60)

\* variant: the "mark read" button snoozes the email as well
callbackQuery_MarkReadSnoozes(rows, data, date) ==
    IF data.action \in {"se:", "mr:"}
    THEN snoozeItem(rows, "email", resolveId(data.arg), snoozeUntilOf(date, 2), date)
    ELSE IF data.action = "st:"
    THEN snoozeItem(rows, "task", resolveId(data.arg), snoozeUntilOf(date, 2), date)
    ELSE rows

\* bot/index.ts 688-814: what the callback_query handler leaves in table
\* snoozed_items; the callback data is its action and the short id after it
callbackQuery(rows, data, date) ==
    IF data.action = "snooze_all"
    THEN rows
    ELSE IF data.action = "force_check"
    THEN rows
    ELSE IF data.action = "se:"
    THEN snoozeItem(rows, "email", resolveId(data.arg), snoozeUntilOf(date, 2), date)
    ELSE IF data.action = "st:"
    THEN snoozeItem(rows, "task", resolveId(data.arg), snoozeUntilOf(date, 2), date)
    ELSE rows

\* bot/index.ts 728-734: what the callback_query handler leaves in table
\* email_tracking; the mark-read button passes the id it carries to
\* markEmailNotified
callbackQueryTracking(rows, data, date) ==
    IF data.action = "mr:"
    THEN markEmailNotified(rows, resolveId(data.arg), date)
    ELSE rows

\* the expiry the handler computes for a button, if it computes one
callbackUntil(data, date) ==
    IF data.action = "snooze_all" THEN <<snoozeUntilOf(date, 1)>>
    ELSE IF data.action \in {"se:", "st:"} THEN <<snoozeUntilOf(date, 2)>>
    ELSE <<>>

\* -------------------------------------------------------------- collectors

Sources == <<"email", "calendar", "tasks">>

\* the result of a promise: pending, or as Promise.allSettled reports it
Pending == [status |-> "pending"]
Fulfilled(value) == [status |-> "fulfilled", value |-> value]
Rejected(message) == [status |-> "rejected", reason |-> message]

\* Promise.allSettled resolves once none of its promises is pending
allSettled(results) == \A src \in DOMAIN results : results[src].status # "pending"

\* variant: only the first failure is recorded
collectContext_FirstErrorOnly(results) ==
    LET ok == SelectSeq(Sources, LAMBDA src : results[src].status = "fulfilled")
        failed == SelectSeq(Sources, LAMBDA src : results[src].status # "fulfilled")
        valueOf(src) == IF results[src].status = "fulfilled"
                        THEN results[src].value
                        ELSE <<>>
    IN  [emails |-> valueOf("email"),
         calendar |-> valueOf("calendar"),
         tasks |-> valueOf("tasks"),
         sourcesAvailable |-> ok \o <<"local_db">>,
         sourceErrors |->
             [i \in 1..min2(1, Len(failed)) |->
                 <<failed[i], ": ", results[failed[i]].reason>>]]

\* collectContext once Promise.allSettled has resolved to `results`
collectContext(results) ==
    LET ok == SelectSeq(Sources, LAMBDA src : results[src].status = "fulfilled")
        failed == SelectSeq(Sources, LAMBDA src : results[src].status # "fulfilled")
        valueOf(src) == IF results[src].status = "fulfilled"
                        THEN results[src].value
                        ELSE <<>>
    IN  [emails |-> valueOf("email"),
         calendar |-> valueOf("calendar"),
         tasks |-> valueOf("tasks"),
         sourcesAvailable |-> ok \o <<"local_db">>,
         sourceErrors |->
             [i \in 1..Len(failed) |->
                 <<failed[i], ": ", results[failed[i]].reason>>]]

\* -------------------------------------------------------------- enrichment

\* the domains of table partnerships
PartnerDomains == {"partner.example"}

getPartnershipByDomain(domain) ==
    IF domain \in PartnerDomains THEN <<[domain |-> domain]>> ELSE <<>>

\* collectors/mail checkSentReply: whether the sent folder holds a message
\* of the conversation; a failed request is caught and answered with false.
\* `answer` is what the mail service does: "found", "none" or "error"
checkSentReply(answer) == answer = "found"

\* enrichEmails 26-43: getPartnershipByDomain and trackDomainInteraction are
\* called for an email outside any try; `dbFails` holds the ids of the
\* emails at which one of them throws
enrichEmailsThrows(emails, dbFails) ==
    \E i \in DOMAIN emails : emails[i].id \in dbFails

\* enrichEmails: every email is kept, in order; an email of a partner gets
\* the partnership and, from checkSentReply, hasReply; `replies` is what the
\* mail service does for the reply check of each email
enrichEmails(emails, replies) ==
    [i \in DOMAIN emails |->
        LET partnership == getPartnershipByDomain(emails[i].domain)
        IN  IF partnership = <<>>
            THEN emails[i]
            ELSE [emails[i] EXCEPT !.partnershipInfo = partnership,
                                   !.hasReply = <<checkSentReply(replies[emails[i].id])>>]]

\* ------------------------------------------------------- the decision engine

\* variant: the fallback's urgency is the lowest of the range
fallbackDecision_LowestUrgency(reason) ==
    [decision |-> "NONE",
     urgency |-> 1,
     summary |-> <<"Decision engine error: ">> \o reason,
     reasoning |-> <<"Fallback due to error: ">> \o reason,
     actionButtons |-> <<>>]

\* a string is the sequence of its parts; `reason` is the error text
fallbackDecision(reason) ==
    [decision |-> "NONE",
     urgency |-> 0,
     summary |-> <<"Decision engine error: ">> \o reason,
     reasoning |-> <<"Fallback due to error: ">> \o reason,
     actionButtons |-> <<>>]

\* Math.round of a number given in tenths: the nearest integer, halves upward
roundTenths(tenths) == (tenths + 5) \div 10

\* variant: no upper clamp
clampUrgency_NoUpper(tenths) == max2(1, roundTenths(tenths))

\* variant: no lower clamp
clampUrgency_NoLower(tenths) == min2(10, roundTenths(tenths))

\* variant: the fraction is cut off instead of rounded
clampUrgency_Truncates(tenths) == max2(1, min2(10, tenths \div 10))

\* Math.max(1, Math.min(10, Math.round(input.urgency)))
clampUrgency(tenths) == max2(1, min2(10, roundTenths(tenths)))

\* variant: the decision kind is compared without regard to case
validDecisions_AnyCase == {"NONE", "TEXT", "CALL", "none", "text", "call"}

validDecisions == {"NONE", "TEXT", "CALL"}

\* makeDecision, given what the messages API answered: an error, a response
\* without a tool_use block, or a tool_use block with its input.  An absent
\* actionButtons is <<>>, a present one <<list>>
makeDecision(response) ==
    IF response.kind = "apiError"
    THEN fallbackDecision(<<"API error: ", "message">>)
    ELSE IF response.kind = "noToolUse"
    THEN fallbackDecision(<<"Claude did not return structured response">>)
    ELSE IF response.input.decision \notin validDecisions
    THEN fallbackDecision(<<"Invalid decision: ", response.input.decision>>)
    ELSE [decision |-> response.input.decision,
          urgency |-> clampUrgency(response.input.urgency),
          summary |-> response.input.summary,
          reasoning |-> response.input.reasoning,
          actionButtons |-> IF response.input.actionButtons = <<>>
                            THEN <<>>
                            ELSE response.input.actionButtons[1]]

\* the answers of the messages API the orchestrator is run against; a raw
\* urgency is given in tenths
NoToolInput ==
    [decision |-> "", urgency |-> 0, summary |-> <<>>, reasoning |-> <<>>,
     actionButtons |-> <<>>]
ToolInput(decision, urgency) ==
    [decision |-> decision, urgency |-> urgency, summary |-> <<"s">>,
     reasoning |-> <<"r">>, actionButtons |-> <<>>]

\* no evaluation of makeDecision is in progress
NoEngineInput == [kind |-> "apiError", input |-> NoToolInput]

\* the runs of the orchestrator: the fetches that fail in collectContext,
\* the answer of the messages API and the timezone, the same through a run
Worlds ==
    {[failed |-> {},
      response |-> [kind |-> "toolUse", input |-> ToolInput("NONE", 4)],
      tz |-> TZ],
     [failed |-> {"calendar"},
      response |-> [kind |-> "toolUse", input |-> ToolInput("TEXT", 35)],
      tz |-> TZ],
     [failed |-> {"email", "calendar", "tasks"},
      response |-> [kind |-> "toolUse", input |-> ToolInput("CALL", 150)],
      tz |-> TZ],
     [failed |-> {},
      response |-> [kind |-> "apiError", input |-> NoToolInput],
      tz |-> TZ]}

\* what the fetchers return when they succeed: items 1..n of a source; the
\* first email is from a partner's domain
Item(src, i) ==
    IF src = "email"
    THEN [id |-> i,
          conversationId |-> IF i = 1 THEN "conversation-1" ELSE "conversation-2",
          domain |-> IF i = 1 THEN "partner.example" ELSE "other.example",
          partnershipInfo |-> <<>>,
          hasReply |-> <<>>]
    ELSE [id |-> i]
Items(src, n) == [i \in 1..n |-> Item(src, i)]

\* the results of the three fetches in a run of the orchestrator
WorldResults(failed) ==
    [src \in {"email", "calendar", "tasks"} |->
        IF src \in failed THEN Rejected("message") ELSE Fulfilled(Items(src, 1))]

\* what checkSentReply answers in a run of the orchestrator
WorldReplies == [id \in 1..(MaxItems + 1) |-> "none"]

\* ------------------------------------------------------------ the orchestrator

Invocations == 1..MaxInvocations

\* an invocation of runCycle that has not happened yet
IdleInvocation ==
    [pc |-> "idle",            \* idle, the await it is parked at, returned,
                               \* threw, retired
     trigger |-> "none",       \* cron, startup, force_command, force_button
     skipGating |-> FALSE,     \* options?.skipGating
     startedAt |-> 0,
     overlapped |-> FALSE,     \* invoked while another invocation was parked
     pausedAtStart |-> FALSE,  \* the pause flag when it was invoked
     calls |-> <<>>,           \* the collaborators it invoked, in order
     gatingResult |-> <<>>,    \* the gating stage's result
     context |-> <<>>,
     decision |-> <<>>,
     raised |-> <<>>,          \* the errors its catch block received
     delivered |-> <<>>,       \* the messages it put on the user channel
     swallowed |-> <<>>,       \* the senders whose failure was swallowed
     result |-> <<>>]          \* the CycleResult it returned

Parked == {"collecting", "enriching", "deciding", "notifying", "errorNotice"}

InFlight(p) == inv[p].pc \in Parked

Call(rec, name) == [rec EXCEPT !.calls = Append(@, name)]

\* a CycleResult, but for its completedAt
CycleResult(rec, date, gatingResult, context, decision, actionTaken) ==
    [cycleId |-> "generated",
     startedAt |-> toISOString(rec.startedAt),
     gatingResult |-> gatingResult,
     context |-> context,
     decision |-> decision,
     actionTaken |-> actionTaken]

\* variant: the guard's result carries PROCEED
skippedResult_Proceed(date) ==
    [cycleId |-> "skipped",
     startedAt |-> toISOString(date),
     gatingResult |-> Proceed,
     context |-> <<>>,
     decision |-> <<>>,
     actionTaken |-> <<>>]

\* scheduler.ts 24-29: the result of an invocation the guard turns away
skippedResult(date) ==
    [cycleId |-> "skipped",
     startedAt |-> toISOString(date),
     gatingResult |-> Blocked("Previous cycle still running", <<>>),
     context |-> <<>>,
     decision |-> <<>>,
     actionTaken |-> <<>>]

\* variant: no guard
guardSkips_Never(running) == FALSE

\* scheduler.ts 22: if (_isRunning)

guardSkips(running) == running

\* variant: the pause flag is not consulted
pauseSkips_Never(paused) == FALSE

\* scheduler.ts 40: if (isPaused())

pauseSkips(paused) == paused

\* variant: options.skipGating is ignored
gatingStage_IgnoresSkip(skipGating, config, date, lastCheckin) ==
    [result |-> checkGating(config, date, lastCheckin),
     calls |-> <<"checkGating">>,
     reads |-> readsLastCheckin(config, date)]

\* scheduler.ts 51-53: the gating stage; `calls` are the collaborators it
\* invokes, `reads` whether getLastCheckinTimestamp is reached
gatingStage(skipGating, config, date, lastCheckin) ==
    IF skipGating
    THEN [result |-> Proceed, calls |-> <<>>, reads |-> FALSE]
    ELSE [result |-> checkGating(config, date, lastCheckin),
          calls |-> <<"checkGating">>,
          reads |-> readsLastCheckin(config, date)]

\* variant: a cycle the cooldown blocks goes on
gatingReturns_ExceptCooldown(gatingResult) ==
    gatingResult.status = "BLOCKED" /\ gatingResult.reason.kind # "Cooldown"

\* scheduler.ts 54: if (gatingResult.status === "BLOCKED")
gatingReturns(gatingResult) == gatingResult.status = "BLOCKED"

\* what a step of an invocation leaves behind: the invocation, the guard,
\* the checkin log, the last cycle result and the snooze store
Outcome(rec, running, log, last) ==
    [rec |-> rec, running |-> running, log |-> log, last |-> last,
     snoozes |-> snoozed_items]

\* variant: no finally clause, a return leaves the guard as it is
Return_KeepsGuard(rec, result, log, last) ==
    Outcome([rec EXCEPT !.pc = "returned", !.result = <<result>>], _isRunning,
            log, last)

\* a return from inside the try block: the finally clause clears the guard
Return(rec, result, log, last) ==
    Outcome([rec EXCEPT !.pc = "returned", !.result = <<result>>], FALSE, log, last)

\* an await: the invocation is parked and the guard stays set
Park(rec, pc) ==
    Outcome([rec EXCEPT !.pc = pc], TRUE, checkin_log, _lastCycleResult)

errorResult(rec, message, date) ==
    CycleResult(rec, date, Proceed, <<>>, <<>>,
                <<[kind |-> "Error", detail |-> <<message>>]>>)

\* variant: a failure of the error notice leaves runCycle as an exception
errorNoticeEnd_Propagates(rec, failed, date) ==
    IF failed
    THEN Outcome([rec EXCEPT !.pc = "threw"], FALSE, checkin_log, _lastCycleResult)
    ELSE Return(rec, errorResult(rec, rec.raised[Len(rec.raised)], date),
                checkin_log, _lastCycleResult)

\* scheduler.ts 131-147: the catch around the error notice swallows its
\* failure; the error result is returned either way
errorNoticeEnd(rec, failed, date) ==
    Return(rec, errorResult(rec, rec.raised[Len(rec.raised)], date),
           checkin_log, _lastCycleResult)

\* scheduler.ts 128-147: the catch block.  sendPlainNotification returns at
\* once when the bot is paused; otherwise its sendMessage is awaited
catchBlock(rec, message, date) ==
    LET caught == Call([rec EXCEPT !.raised = Append(@, message)],
                       "sendPlainNotification")
    IN  IF _isPaused
        THEN errorNoticeEnd(caught, FALSE, date)
        ELSE Park(caught, "errorNotice")

actionTakenOf(decision) ==
    IF decision.decision = "NONE"
    THEN <<[kind |-> "No action needed", detail |-> <<>>]>>
    ELSE <<[kind |-> "Sent notification",
            detail |-> <<decision.decision, decision.urgency>>]>>

\* scheduler.ts 95-127: log the check-in, build the result, return
logAndReturn(rec, logFails, date) ==
    LET decision == rec.decision[1]
        context == rec.context[1]
        logged == Call(rec, "logCheckin")
        result == CycleResult(logged, date, rec.gatingResult[1],
                              <<context>>, <<decision>>,
                              actionTakenOf(decision))
    IN  IF logFails
        THEN catchBlock(logged, "logCheckin", date)
        ELSE Return(logged, result,
                    logCheckin(checkin_log, decision.decision, decision.urgency,
                               decision.summary, context.sourcesAvailable, date),
                    <<result>>)

\* scheduler.ts 87-93: dispatch the notification.  Both senders return at
\* once when the bot is paused; otherwise their sendMessage is awaited
notifyStage(rec, logFails, date) ==
    LET decision == rec.decision[1]
        sender == IF decision.decision \in {"TEXT", "CALL"}
                  THEN "sendDecisionNotification"
                  ELSE "sendNoneNotification"
        called == Call(rec, sender)
    IN  IF _isPaused
        THEN logAndReturn(called, logFails, date)
        ELSE Park(called, "notifying")

Apply(p, outcome) ==
    /\ inv' = [inv EXCEPT ![p] = outcome.rec]
    /\ _isRunning' = outcome.running
    /\ checkin_log' = outcome.log
    /\ snoozed_items' = outcome.snoozes
    /\ _lastCycleResult' = outcome.last

\* the record of an invocation that has returned is kept until the next
\* invocation of runCycle
Retire(rec) ==
    IF rec.pc \in {"returned", "threw"}
    THEN [IdleInvocation EXCEPT !.pc = "retired"]
    ELSE rec

Begin(p, outcome) ==
    /\ inv' = [q \in Invocations |-> IF q = p THEN outcome.rec ELSE Retire(inv[q])]
    /\ _isRunning' = outcome.running
    /\ checkin_log' = outcome.log
    /\ snoozed_items' = outcome.snoozes
    /\ _lastCycleResult' = outcome.last

\* scheduler.ts 21-65: runCycle from its entry to its first await or return
runCycle(p, trigger, skipGating, storeFails) ==
    LET entered == [IdleInvocation EXCEPT
                        !.trigger = trigger,
                        !.skipGating = skipGating,
                        !.startedAt = now,
                        !.overlapped = \E q \in Invocations : InFlight(q),
                        !.pausedAtStart = _isPaused]
        checked == Call(entered, "isPaused")
        stage == gatingStage(skipGating, DEFAULT_GATING_CONFIG, now,
                             getLastCheckinTimestamp(checkin_log))
        gated == [checked EXCEPT !.calls = @ \o stage.calls,
                                 !.gatingResult = <<stage.result>>]
    IN  IF guardSkips(_isRunning)
        THEN Begin(p, Outcome([entered EXCEPT !.pc = "returned",
                                              !.result = <<skippedResult(now)>>],
                              _isRunning, checkin_log, _lastCycleResult))
        ELSE IF pauseSkips(_isPaused)
        THEN Begin(p, Return(checked,
                             CycleResult(checked, now,
                                         Blocked("Bot is paused by user", <<>>),
                                         <<>>, <<>>, <<>>),
                             checkin_log, _lastCycleResult))
        ELSE IF stage.reads /\ storeFails
        THEN Begin(p, catchBlock([checked EXCEPT !.calls = @ \o stage.calls],
                                 "getLastCheckinTimestamp", now))
        ELSE IF gatingReturns(stage.result)
        THEN Begin(p, Return(gated,
                             CycleResult(gated, now, stage.result, <<>>, <<>>, <<>>),
                             checkin_log, _lastCycleResult))
        ELSE Begin(p, Park(Call(gated, "collectContext"), "collecting"))

\* the invocations happen in the order of their numbers
NextInvocation == Cardinality({q \in Invocations : inv[q].pc # "idle"}) + 1

Invoke(trigger, skipGating) ==
    /\ NextInvocation \in Invocations
    /\ \E storeFails \in BOOLEAN :
           runCycle(NextInvocation, trigger, skipGating, storeFails)
    /\ UNCHANGED <<now, _isPaused, ticks, world, gatingVars, rangeVars, engineVars, collectVars, storeCalls, botVars>>

\* scheduler.ts 161-163: the cron task
CronTick ==
    /\ Invoke("cron", FALSE)
    /\ UNCHANGED main

\* unnamed/part_005 54-56: main runs the initial cycle, once
Startup ==
    /\ main = "initialCycle"
    /\ main' = "running"
    /\ Invoke("startup", FALSE)

\* bot/index.ts 433-441 and scheduler.ts 166-171: the /force command
ForceCommand ==
    /\ Invoke("force_command", TRUE)
    /\ UNCHANGED main

\* bot/index.ts 704-708 and scheduler.ts 166-171: the force_check button
ForceButton ==
    /\ Invoke("force_button", TRUE)
    /\ UNCHANGED main

Step(p, outcome) ==
    /\ Apply(p, outcome)
    /\ UNCHANGED <<now, _isPaused, ticks, main, world, gatingVars, rangeVars, engineVars, collectVars, storeCalls, botVars>>

\* scheduler.ts 65-68: collectContext settles, enrichEmails is called
collectEnd(rec, results, localFails, date) ==
    IF localFails
    THEN catchBlock(rec, "collectContext", date)
    ELSE Park(Call([rec EXCEPT !.context = <<collectContext(results)>>],
                   "enrichEmails"),
              "enriching")

CollectDone(p) ==
    /\ inv[p].pc = "collecting"
    /\ \E localFails \in BOOLEAN :
           Step(p, collectEnd(inv[p], WorldResults(world.failed), localFails, now))

\* scheduler.ts 68-85: enrichEmails settles, the expired snoozes are swept,
\* makeDecision is called
\* variant: the expired snoozes are swept after makeDecision is called
enrichEnd_SweepsLate(rec, replies, dbFails, sweepFails, date) ==
    LET enriched == [rec EXCEPT !.context[1].emails = enrichEmails(@, replies)]
    IN  IF enrichEmailsThrows(rec.context[1].emails, dbFails)
        THEN catchBlock(rec, "enrichEmails", date)
        ELSE [Park(Call(Call(enriched, "makeDecision"), "cleanExpiredSnoozes"),
                   "deciding")
                 EXCEPT !.snoozes = cleanExpiredSnoozes(snoozed_items, date)]

enrichEnd(rec, replies, dbFails, sweepFails, date) ==
    LET enriched == [rec EXCEPT !.context[1].emails = enrichEmails(@, replies)]
    IN  IF enrichEmailsThrows(rec.context[1].emails, dbFails)
        THEN catchBlock(rec, "enrichEmails", date)
        ELSE IF sweepFails
        THEN catchBlock(Call(enriched, "cleanExpiredSnoozes"),
                        "cleanExpiredSnoozes", date)
        ELSE [Park(Call(Call(enriched, "cleanExpiredSnoozes"), "makeDecision"),
                   "deciding")
                 EXCEPT !.snoozes = cleanExpiredSnoozes(snoozed_items, date)]

EnrichDone(p) ==
    /\ inv[p].pc = "enriching"
    /\ \E dbFails \in SUBSET {1}, sweepFails \in BOOLEAN :
           Step(p, enrichEnd(inv[p], WorldReplies, dbFails, sweepFails, now))

\* scheduler.ts 85-93: makeDecision settles, the notification is dispatched
DecideDone(p) ==
    /\ inv[p].pc = "deciding"
    /\ \E logFails \in BOOLEAN :
           Step(p, notifyStage([inv[p] EXCEPT !.decision =
                                    <<makeDecision(world.response)>>],
                               logFails, now))

\* variant: a failure of either sender is swallowed
notifyEnd_SwallowsAll(rec, sendFails, logFails, date) ==
    LET sender == rec.calls[Len(rec.calls)]
    IN  IF sendFails
        THEN logAndReturn([rec EXCEPT !.swallowed = Append(@, sender)],
                          logFails, date)
        ELSE logAndReturn([rec EXCEPT !.delivered = Append(@, sender)],
                          logFails, date)

\* variant: a failure of either sender is rethrown
notifyEnd_RethrowsAll(rec, sendFails, logFails, date) ==
    LET sender == rec.calls[Len(rec.calls)]
    IN  IF sendFails
        THEN catchBlock(rec, sender, date)
        ELSE logAndReturn([rec EXCEPT !.delivered = Append(@, sender)],
                          logFails, date)

\* scheduler.ts 88-101 with bot/index.ts 861-918: the awaited sendMessage
\* settles.  sendDecisionNotification rethrows a failure, sendNoneNotification
\* swallows it
notifyEnd(rec, sendFails, logFails, date) ==
    LET sender == rec.calls[Len(rec.calls)]
    IN  IF sendFails /\ sender = "sendDecisionNotification"
        THEN catchBlock(rec, "sendDecisionNotification", date)
        ELSE IF sendFails
        THEN logAndReturn([rec EXCEPT !.swallowed = Append(@, sender)],
                          logFails, date)
        ELSE logAndReturn([rec EXCEPT !.delivered = Append(@, sender)],
                          logFails, date)

NotifyDone(p) ==
    /\ inv[p].pc = "notifying"
    /\ \E sendFails \in BOOLEAN, logFails \in BOOLEAN :
           Step(p, notifyEnd(inv[p], sendFails, logFails, now))

\* scheduler.ts 131-147 with bot/index.ts 844-857: the error notice settles
ErrorNoticeDone(p) ==
    /\ inv[p].pc = "errorNotice"
    /\ \E failed \in BOOLEAN :
           Step(p, errorNoticeEnd(
                       IF failed
                       THEN [inv[p] EXCEPT !.swallowed =
                                 Append(@, "sendPlainNotification")]
                       ELSE [inv[p] EXCEPT !.delivered =
                                 Append(@, "sendPlainNotification")],
                       failed, now))

\* bot/index.ts 443-448: the /pause command
PauseCommand ==
    /\ _isPaused' = TRUE
    /\ UNCHANGED <<now, _isRunning, _lastCycleResult, checkin_log,
                   snoozed_items, inv, ticks, main, world, gatingVars, rangeVars, engineVars, collectVars, storeCalls, botVars>>

\* bot/index.ts 450-455: the /resume command
ResumeCommand ==
    /\ _isPaused' = FALSE
    /\ UNCHANGED <<now, _isRunning, _lastCycleResult, checkin_log,
                   snoozed_items, inv, ticks, main, world, gatingVars, rangeVars, engineVars, collectVars, storeCalls, botVars>>

\* the wall clock advances by an hour
TickSeconds == 60 * 60

Tick ==
    /\ ticks < MaxTicks
    /\ now' = now + TickSeconds
    /\ ticks' = ticks + 1
    /\ UNCHANGED <<_isRunning, _isPaused, _lastCycleResult, checkin_log,
                   snoozed_items, inv, main, world, gatingVars, rangeVars, engineVars, collectVars, storeCalls, botVars>>

\* the process starts on a Saturday at 06:00 (quiet hours, an hour before
\* the focus hours) or at 21:00 (an hour before the quiet hours), local time
StartTimes == {DateOfLocal(6 * SecondsPerDay + h * 3600) : h \in {6, 21}}

\* no run of collectContext is in progress
NoFetches == [src \in {"email", "calendar", "tasks"} |-> Pending]

\* no evaluation of checkGating or isInTimeRange is in progress
NoGatingInput ==
    [day |-> 0, minute |-> 0, second |-> 0, focus |-> <<0, 0>>,
     quiet |-> <<0, 0>>, weekendMode |-> "normal", pickups |-> <<>>,
     reminder |-> 0, last |-> <<>>]

NoRangeInput == [current |-> 0, start |-> 0, end |-> 0]

Init ==
    /\ world \in Worlds
    /\ now \in StartTimes
    /\ _isRunning = FALSE
    /\ _isPaused = FALSE
    /\ _lastCycleResult = <<>>
    /\ checkin_log = <<>>
    /\ snoozed_items = <<>>
    /\ inv = [p \in Invocations |-> IdleInvocation]
    /\ ticks = 0
    /\ main = "initialCycle"
    /\ gatingInput = NoGatingInput
    /\ gatingOutput = <<>>
    /\ rangeInput = NoRangeInput
    /\ rangeOutput = <<>>
    /\ engineInput = NoEngineInput
    /\ engineOutput = <<>>
    /\ fetches = NoFetches
    /\ collectRun = IdleInvocation
    /\ storeCalls = <<>>
    /\ _idMap = SentIdMap
    /\ email_tracking = <<>>
    /\ keyboard = SentKeyboard

Next ==
    \/ CronTick
    \/ Startup
    \/ ForceCommand
    \/ ForceButton
    \/ \E p \in Invocations : CollectDone(p)
    \/ \E p \in Invocations : EnrichDone(p)
    \/ \E p \in Invocations : DecideDone(p)
    \/ \E p \in Invocations : NotifyDone(p)
    \/ \E p \in Invocations : ErrorNoticeDone(p)
    \/ PauseCommand
    \/ ResumeCommand
    \/ Tick

Spec == Init /\ [][Next]_vars

\* every collaborator call of a cycle eventually returns or fails: an
\* invocation parked at an await is resumed
Progress ==
    \A p \in Invocations :
        /\ WF_vars(CollectDone(p))
        /\ WF_vars(EnrichDone(p))
        /\ WF_vars(DecideDone(p))
        /\ WF_vars(NotifyDone(p))
        /\ WF_vars(ErrorNoticeDone(p))

\* the process has started, on the Saturday at 06:00 or at 21:00 local time;
\* the decision is TEXT or CALL
FairInit ==
    /\ world \in {w \in Worlds : w.response.input.decision \in {"TEXT", "CALL"}}
    /\ now \in StartTimes
    /\ _isRunning = FALSE
    /\ _isPaused = FALSE
    /\ _lastCycleResult = <<>>
    /\ checkin_log = <<>>
    /\ snoozed_items = <<>>
    /\ inv = [p \in Invocations |-> IdleInvocation]
    /\ ticks = 0
    /\ main = "running"
    /\ gatingInput = NoGatingInput
    /\ gatingOutput = <<>>
    /\ rangeInput = NoRangeInput
    /\ rangeOutput = <<>>
    /\ engineInput = NoEngineInput
    /\ engineOutput = <<>>
    /\ fetches = NoFetches
    /\ collectRun = IdleInvocation
    /\ storeCalls = <<>>
    /\ _idMap = SentIdMap
    /\ email_tracking = <<>>
    /\ keyboard = SentKeyboard

\* the cron task and the force button invoke runCycle, the invocations
\* resume at their awaits, the user pauses and resumes
FairNext ==
    \/ CronTick
    \/ ForceButton
    \/ \E p \in Invocations : CollectDone(p)
    \/ \E p \in Invocations : EnrichDone(p)
    \/ \E p \in Invocations : DecideDone(p)
    \/ \E p \in Invocations : NotifyDone(p)
    \/ \E p \in Invocations : ErrorNoticeDone(p)
    \/ PauseCommand
    \/ ResumeCommand

FairSpec == FairInit /\ [][FairNext]_vars /\ Progress

\* ------------------------------------------- evaluations of checkGating

\* the points of a grid of n times of day, in minutes
Grid(n) == {(k * MinutesPerDay) \div n : k \in 0..(n - 1)}

\* the grid points and the minutes next to them
Around(grid) == {(g + d) % MinutesPerDay : g \in grid, d \in {MinutesPerDay - 1, 0, 1}}

GatingTimes == Grid(NumTimes)

\* the arguments of an evaluation: a Saturday, Sunday or Monday, a minute of
\* the day and a second of the minute, the two windows, the weekend mode,
\* the pickup times and the reminder minutes, and how many seconds ago the
\* newest row of checkin_log was written
GatingInputs ==
    [day : {6, 7, 8},
     minute : Around(GatingTimes),
     second : {0, 30},
     focus : GatingTimes \X GatingTimes,
     quiet : GatingTimes \X GatingTimes,
     weekendMode : {"normal", "reduced", "quiet"},
     pickups : {<<>>} \cup {<<g>> : g \in GatingTimes},
     reminder : {DEFAULT_GATING_CONFIG.pickupReminderMinutes},
     last : {<<>>, <<60 * 60>>, <<600 * 60>>}]

\* the GatingConfig, the Date and the stored timestamp of an evaluation
GatingConfigOf(input) ==
    [DEFAULT_GATING_CONFIG EXCEPT
        !.focusHours = [start |-> HHMM(input.focus[1]), end |-> HHMM(input.focus[2])],
        !.quietHours = [start |-> HHMM(input.quiet[1]), end |-> HHMM(input.quiet[2])],
        !.weekendMode = input.weekendMode,
        !.pickupTimes = [i \in DOMAIN input.pickups |-> HHMM(input.pickups[i])],
        !.pickupReminderMinutes = input.reminder]

GatingDateOf(input) ==
    DateOfLocal(input.day * SecondsPerDay + input.minute * 60 + input.second)

GatingLastOf(input) ==
    IF input.last = <<>>
    THEN <<>>
    ELSE <<datetimeNow(GatingDateOf(input) - input.last[1])>>

\* the orchestrator at rest
NoWorld ==
    [failed |-> {},
     response |-> [kind |-> "apiError", input |-> NoToolInput],
     tz |-> TZ]

OrchestratorAtRest ==
    /\ now = 0
    /\ _isRunning = FALSE
    /\ _isPaused = FALSE
    /\ _lastCycleResult = <<>>
    /\ checkin_log = <<>>
    /\ snoozed_items = <<>>
    /\ inv = [p \in Invocations |-> IdleInvocation]
    /\ ticks = 0
    /\ main = "initialCycle"
    /\ world = NoWorld

GatingInit ==
    /\ OrchestratorAtRest
    /\ gatingInput \in GatingInputs
    /\ gatingOutput = <<>>
    /\ rangeInput = NoRangeInput
    /\ rangeOutput = <<>>
    /\ engineInput = NoEngineInput
    /\ engineOutput = <<>>
    /\ fetches = NoFetches
    /\ collectRun = IdleInvocation
    /\ storeCalls = <<>>
    /\ _idMap = SentIdMap
    /\ email_tracking = <<>>
    /\ keyboard = SentKeyboard

EvalCheckGating ==
    /\ gatingOutput = <<>>
    /\ gatingOutput' = <<checkGating(GatingConfigOf(gatingInput),
                                     GatingDateOf(gatingInput),
                                     GatingLastOf(gatingInput))>>
    /\ UNCHANGED <<orchestratorVars, gatingInput, rangeVars, engineVars, collectVars, storeCalls, botVars>>

GatingNext == EvalCheckGating

GatingSpec == GatingInit /\ [][GatingNext]_vars

\* ------------------- evaluations of checkGating at the bounds of its rules

PickupTimes == Grid(NumPickupTimes)

\* the arguments of an evaluation whose local wall clock reads `local`
GatingInputAt(local, focus, quiet, weekendMode, pickups, reminder, last) ==
    [day |-> local \div SecondsPerDay,
     minute |-> (local % SecondsPerDay) \div 60,
     second |-> local % 60,
     focus |-> focus,
     quiet |-> quiet,
     weekendMode |-> weekendMode,
     pickups |-> pickups,
     reminder |-> reminder,
     last |-> last]

\* seconds from a pickup time: around the start of its window and around
\* the pickup time itself
PickupOffsets(reminder) ==
    {sign * reminder * 60 + d : sign \in {-1, 0}, d \in {-30, 0, 30}}

\* the ages in seconds of the newest row of checkin_log: about the cooldown,
\* well inside it and well beyond it
LastCheckinAges ==
    {30 * 60,
     DEFAULT_GATING_CONFIG.cooldownMinutes * 60 - 30,
     DEFAULT_GATING_CONFIG.cooldownMinutes * 60,
     200 * 60,
     600 * 60}

\* config.pickupTimes: no, one or two pickup times
PickupLists ==
    {<<>>} \cup {<<g>> : g \in PickupTimes}
           \cup {<<g, h>> : g \in PickupTimes, h \in PickupTimes}

\* a Sunday or a Monday, the clock about a pickup time or about the start of
\* its window, the focus and quiet hours the defaults or empty, no, one or
\* two pickup times
RuleInputs ==
    {GatingInputAt(day * SecondsPerDay + t * 60 + offset,
                   focus, quiet, weekendMode, pickups, reminder, last) :
        day \in {7, 8},
        t \in PickupTimes,
        reminder \in {0, DEFAULT_GATING_CONFIG.pickupReminderMinutes},
        offset \in PickupOffsets(DEFAULT_GATING_CONFIG.pickupReminderMinutes),
        focus \in {<<0, 0>>, <<7 * 60, 10 * 60>>},
        quiet \in {<<0, 0>>, <<22 * 60, 7 * 60>>},
        weekendMode \in {"reduced", "quiet"},
        pickups \in PickupLists,
        last \in {<<>>} \cup {<<age>> : age \in LastCheckinAges}}

RuleInit ==
    /\ OrchestratorAtRest
    /\ gatingInput \in RuleInputs
    /\ gatingOutput = <<>>
    /\ rangeInput = NoRangeInput
    /\ rangeOutput = <<>>
    /\ engineInput = NoEngineInput
    /\ engineOutput = <<>>
    /\ fetches = NoFetches
    /\ collectRun = IdleInvocation
    /\ storeCalls = <<>>
    /\ _idMap = SentIdMap
    /\ email_tracking = <<>>
    /\ keyboard = SentKeyboard

RuleSpec == RuleInit /\ [][GatingNext]_vars

\* ----------------------------------------- evaluations of isInTimeRange

RangeTimes == Around(Grid(NumRangeTimes))

RangeInputs == [current : RangeTimes, start : RangeTimes, end : RangeTimes]

RangeInit ==
    /\ OrchestratorAtRest
    /\ gatingInput = NoGatingInput
    /\ gatingOutput = <<>>
    /\ rangeInput \in RangeInputs
    /\ rangeOutput = <<>>
    /\ engineInput = NoEngineInput
    /\ engineOutput = <<>>
    /\ fetches = NoFetches
    /\ collectRun = IdleInvocation
    /\ storeCalls = <<>>
    /\ _idMap = SentIdMap
    /\ email_tracking = <<>>
    /\ keyboard = SentKeyboard

EvalIsInTimeRange ==
    /\ rangeOutput = <<>>
    /\ rangeOutput' = <<isInTimeRange(HHMM(rangeInput.current),
                                      HHMM(rangeInput.start),
                                      HHMM(rangeInput.end))>>
    /\ UNCHANGED <<orchestratorVars, gatingVars, rangeInput, engineVars, collectVars, storeCalls, botVars>>

RangeNext == EvalIsInTimeRange

RangeSpec == RangeInit /\ [][RangeNext]_vars

\* ------------------------------------------ evaluations of makeDecision

\* raw decision kinds: the three valid ones and some that are not
RawDecisions == {"NONE", "TEXT", "CALL", "MAYBE", "text", ""}

\* raw urgencies, in tenths: from -MaxRawUrgency to MaxRawUrgency
RawUrgencies == (0 - MaxRawUrgency * 10)..(MaxRawUrgency * 10)

\* what the messages API answers: an error, a response without a tool_use
\* block, or a tool_use block whose actionButtons is absent, empty or not
EngineResponses ==
    {[kind |-> "apiError", input |-> NoToolInput],
     [kind |-> "noToolUse", input |-> NoToolInput]}
    \cup [kind : {"toolUse"},
          input : [decision : RawDecisions,
                   urgency : RawUrgencies,
                   summary : {<<"s">>},
                   reasoning : {<<"r">>},
                   actionButtons : {<<>>, <<<<>>>>, <<<<"snooze_all", "force_check">>>>}]]

EngineInit ==
    /\ OrchestratorAtRest
    /\ gatingInput = NoGatingInput
    /\ gatingOutput = <<>>
    /\ rangeInput = NoRangeInput
    /\ rangeOutput = <<>>
    /\ engineInput \in EngineResponses
    /\ engineOutput = <<>>
    /\ fetches = NoFetches
    /\ collectRun = IdleInvocation
    /\ storeCalls = <<>>
    /\ _idMap = SentIdMap
    /\ email_tracking = <<>>
    /\ keyboard = SentKeyboard

EvalMakeDecision ==
    /\ engineOutput = <<>>
    /\ engineOutput' = <<makeDecision(engineInput)>>
    /\ UNCHANGED <<orchestratorVars, gatingVars, rangeVars, engineInput, collectVars, storeCalls, botVars>>

EngineNext == EvalMakeDecision

EngineSpec == EngineInit /\ [][EngineNext]_vars

\* ------------------------------------------------------ runs of the cooldown

\* the timezones the process is run in: New York, UTC, Athens
TimeZones == {TZ, 0, 120}

\* the clock advances by a minute, or to a minute before, to, or a minute
\* after the end of the default cooldown
CooldownSteps ==
    {60} \cup {(DEFAULT_GATING_CONFIG.cooldownMinutes + d) * 60 : d \in {-1, 0, 1}}

\* the process runs on a Monday, at 06:00 (quiet hours) or 12:00 local time
CooldownInit ==
    /\ world \in {[NoWorld EXCEPT !.tz = z] : z \in TimeZones}
    /\ now \in {DateOfLocal(8 * SecondsPerDay + h * 3600) : h \in {6, 12}}
    /\ _isRunning = FALSE
    /\ _isPaused = FALSE
    /\ _lastCycleResult = <<>>
    /\ checkin_log = <<>>
    /\ snoozed_items = <<>>
    /\ inv = [p \in Invocations |-> IdleInvocation]
    /\ ticks = 0
    /\ main = "running"
    /\ gatingInput = NoGatingInput
    /\ gatingOutput = <<>>
    /\ rangeInput = NoRangeInput
    /\ rangeOutput = <<>>
    /\ engineInput = NoEngineInput
    /\ engineOutput = <<>>
    /\ fetches = NoFetches
    /\ collectRun = IdleInvocation
    /\ storeCalls = <<>>
    /\ _idMap = SentIdMap
    /\ email_tracking = <<>>
    /\ keyboard = SentKeyboard

\* scheduler.ts 96-101: a cycle completes and logs its check-in
CycleCompletes ==
    /\ gatingOutput = <<>>
    /\ Len(checkin_log) < MaxCheckins
    /\ \E w \in Worlds :
           LET decision == makeDecision(w.response)
           IN  checkin_log' = logCheckin(checkin_log, decision.decision,
                                         decision.urgency, decision.summary,
                                         <<"local_db">>, now)
    /\ UNCHANGED <<now, _isRunning, _isPaused, _lastCycleResult,
                   snoozed_items, inv, ticks, main, world, gatingVars, rangeVars, engineVars, collectVars, storeCalls, botVars>>

ClockAdvances ==
    /\ gatingOutput = <<>>
    /\ ticks < MaxAdvances
    /\ \E d \in CooldownSteps : now' = now + d
    /\ ticks' = ticks + 1
    /\ UNCHANGED <<_isRunning, _isPaused, _lastCycleResult, checkin_log,
                   snoozed_items, inv, main, world, gatingVars, rangeVars, engineVars, collectVars, storeCalls, botVars>>

\* scheduler.ts 51-53: the gating stage of a cycle that is not bypassed
GateEvaluates ==
    /\ gatingOutput = <<>>
    /\ gatingOutput' =
           <<gatingStage(FALSE, DEFAULT_GATING_CONFIG, now,
                         getLastCheckinTimestamp(checkin_log)).result>>
    /\ UNCHANGED <<orchestratorVars, gatingInput, rangeVars, engineVars, collectVars, storeCalls, botVars>>

CooldownNext ==
    \/ CycleCompletes
    \/ ClockAdvances
    \/ GateEvaluates

CooldownSpec == CooldownInit /\ [][CooldownNext]_vars

\* ------------------------------------------- cron ticks around the cooldown

\* a cycle completed and logged its check-in at `date`
LoggedRow(date) ==
    [timestamp |-> datetimeNow(date),
     decision |-> "NONE",
     urgency |-> 4,
     summary |-> <<"s">>,
     sources_available |-> <<"email", "calendar", "tasks", "local_db">>]

\* the process runs on a Monday, at 06:00 (quiet hours) or 12:00 local time,
\* in one of the timezones; a cycle has just logged its check-in
TickInit ==
    /\ world \in {[w EXCEPT !.tz = z] :
                     w \in {v \in Worlds : v.response.input.decision = "NONE"},
                     z \in TimeZones}
    /\ now \in {DateOfLocal(8 * SecondsPerDay + h * 3600) : h \in {6, 12}}
    /\ _isRunning = FALSE
    /\ _isPaused = FALSE
    /\ _lastCycleResult = <<>>
    /\ checkin_log = <<LoggedRow(now)>>
    /\ snoozed_items = <<>>
    /\ inv = [p \in Invocations |-> IdleInvocation]
    /\ ticks = 0
    /\ main = "running"
    /\ gatingInput = NoGatingInput
    /\ gatingOutput = <<>>
    /\ rangeInput = NoRangeInput
    /\ rangeOutput = <<>>
    /\ engineInput = NoEngineInput
    /\ engineOutput = <<>>
    /\ fetches = NoFetches
    /\ collectRun = IdleInvocation
    /\ storeCalls = <<>>
    /\ _idMap = SentIdMap
    /\ email_tracking = <<>>
    /\ keyboard = SentKeyboard

\* the clock advances while no cycle is in flight
ClockAdvancesAtRest ==
    /\ ~_isRunning
    /\ ticks < MaxAdvances
    /\ \E d \in CooldownSteps : now' = now + d
    /\ ticks' = ticks + 1
    /\ UNCHANGED <<_isRunning, _isPaused, _lastCycleResult, checkin_log,
                   snoozed_items, inv, main, world, gatingVars, rangeVars,
                   engineVars, collectVars, storeCalls, botVars>>

TickNext ==
    \/ CronTick
    \/ \E p \in Invocations : CollectDone(p)
    \/ \E p \in Invocations : EnrichDone(p)
    \/ \E p \in Invocations : DecideDone(p)
    \/ \E p \in Invocations : NotifyDone(p)
    \/ \E p \in Invocations : ErrorNoticeDone(p)
    \/ PauseCommand
    \/ ResumeCommand
    \/ ClockAdvancesAtRest

TickSpec == TickInit /\ [][TickNext]_vars

\* --------------------------------------------------- runs of the snooze store

\* an entry of storeCalls: a callback (op is its action, id the short id it
\* carries) or a call of snoozeItem, isSnoozed or cleanExpiredSnoozes
StoreCall(op, type, id, until, at, result) ==
    [op |-> op, type |-> type, id |-> id, until |-> until, at |-> at,
     result |-> result]

\* the buttons pressed: snooze email, snooze task, snooze everything, mark
\* read
Buttons ==
    {[action |-> "se:", arg |-> "413055e0"],
     [action |-> "st:", arg |-> "7afaa346"],
     [action |-> "snooze_all", arg |-> ""],
     [action |-> "mr:", arg |-> "4a777af7"]}

\* bot/index.ts 688-814: a button is pressed
CallbackQuery(data) ==
    /\ Len(storeCalls) < MaxStoreCalls
    /\ snoozed_items' = callbackQuery(snoozed_items, data, now)
    /\ email_tracking' = callbackQueryTracking(email_tracking, data, now)
    /\ storeCalls' = Append(storeCalls,
                            StoreCall(data.action, "", data.arg,
                                      callbackUntil(data, now), now, FALSE))
    /\ UNCHANGED <<now, _isRunning, _isPaused, _lastCycleResult, checkin_log,
                   inv, ticks, main, world, gatingVars, rangeVars, engineVars,
                   collectVars, _idMap, keyboard>>

\* snoozeItem is called with an expiry one or two hours ahead
SnoozeItemCalled(sourceType, sourceId) ==
    /\ Len(storeCalls) < MaxStoreCalls
    /\ \E hours \in {1, 2} :
           /\ snoozed_items' = snoozeItem(snoozed_items, sourceType, sourceId,
                                          snoozeUntilOf(now, hours), now)
           /\ storeCalls' = Append(storeCalls,
                                   StoreCall("snoozeItem", sourceType, sourceId,
                                             <<snoozeUntilOf(now, hours)>>, now,
                                             FALSE))
    /\ UNCHANGED <<now, _isRunning, _isPaused, _lastCycleResult, checkin_log,
                   inv, ticks, main, world, gatingVars, rangeVars, engineVars,
                   collectVars, botVars>>

IsSnoozedCalled(sourceType, sourceId) ==
    /\ Len(storeCalls) < MaxStoreCalls
    /\ storeCalls' = Append(storeCalls,
                            StoreCall("isSnoozed", sourceType, sourceId, <<>>, now,
                                      isSnoozed(snoozed_items, sourceType,
                                                sourceId, now)))
    /\ UNCHANGED <<orchestratorVars, gatingVars, rangeVars, engineVars, collectVars, botVars>>

\* scheduler.ts 79: a cycle sweeps the expired snoozes
SweepRuns ==
    /\ Len(storeCalls) < MaxStoreCalls
    /\ snoozed_items' = cleanExpiredSnoozes(snoozed_items, now)
    /\ storeCalls' = Append(storeCalls,
                            StoreCall("cleanExpiredSnoozes", "", "", <<>>, now,
                                      FALSE))
    /\ UNCHANGED <<now, _isRunning, _isPaused, _lastCycleResult, checkin_log,
                   inv, ticks, main, world, gatingVars, rangeVars, engineVars,
                   collectVars, botVars>>

HourPasses ==
    /\ ticks < MaxSnoozeHours
    /\ now' = now + TickSeconds
    /\ ticks' = ticks + 1
    /\ UNCHANGED <<_isRunning, _isPaused, _lastCycleResult, checkin_log,
                   snoozed_items, inv, main, world, gatingVars, rangeVars,
                   engineVars, collectVars, storeCalls, botVars>>

\* a row a press of the snooze email button left the day before
OldRow(date) ==
    [source_type |-> "email",
     source_id |-> "conversation-1",
     snooze_until |-> snoozeUntilOf(date - SecondsPerDay, 2),
     created_at |-> datetimeNow(date - SecondsPerDay)]

\* a Monday at 12:00 or 22:00 UTC; the store is empty or holds an old row
SnoozeInit ==
    /\ world = NoWorld
    /\ now \in {8 * SecondsPerDay + h * 3600 : h \in {12, 22}}
    /\ _isRunning = FALSE
    /\ _isPaused = FALSE
    /\ _lastCycleResult = <<>>
    /\ checkin_log = <<>>
    /\ snoozed_items \in {<<>>, <<OldRow(now)>>}
    /\ inv = [p \in Invocations |-> IdleInvocation]
    /\ ticks = 0
    /\ main = "running"
    /\ gatingInput = NoGatingInput
    /\ gatingOutput = <<>>
    /\ rangeInput = NoRangeInput
    /\ rangeOutput = <<>>
    /\ engineInput = NoEngineInput
    /\ engineOutput = <<>>
    /\ fetches = NoFetches
    /\ collectRun = IdleInvocation
    /\ storeCalls = <<>>
    /\ _idMap = SentIdMap
    /\ email_tracking = <<>>
    /\ keyboard = SentKeyboard

SnoozeNext ==
    \/ \E data \in Buttons : CallbackQuery(data)
    \/ SnoozeItemCalled("email", "conversation-1")
    \/ \E sourceId \in {"conversation-1", "task-1"} :
           IsSnoozedCalled(IF sourceId = "task-1" THEN "task" ELSE "email", sourceId)
    \/ SweepRuns
    \/ HourPasses

SnoozeSpec == SnoozeInit /\ [][SnoozeNext]_vars

\* ------------------------------------------------- runs of the callback ids

\* the buttons a decision can carry, one for each of the ids
ButtonsOf ==
    {[action |-> IF fullId = "conversation-1" THEN "snooze_email:"
                 ELSE IF fullId = "email-1" THEN "mark_read:"
                 ELSE "snooze_task:",
      arg |-> fullId] : fullId \in FullIds}

\* the process has started: no id was shortened, no notification was sent
IdInit ==
    /\ world = NoWorld
    /\ now = 8 * SecondsPerDay + 12 * 3600
    /\ _isRunning = FALSE
    /\ _isPaused = FALSE
    /\ _lastCycleResult = <<>>
    /\ checkin_log = <<>>
    /\ snoozed_items = <<>>
    /\ inv = [p \in Invocations |-> IdleInvocation]
    /\ ticks = 0
    /\ main = "running"
    /\ gatingInput = NoGatingInput
    /\ gatingOutput = <<>>
    /\ rangeInput = NoRangeInput
    /\ rangeOutput = <<>>
    /\ engineInput = NoEngineInput
    /\ engineOutput = <<>>
    /\ fetches = NoFetches
    /\ collectRun = IdleInvocation
    /\ storeCalls = <<>>
    /\ _idMap = <<>>
    /\ email_tracking = <<>>
    /\ keyboard = <<>>

\* bot/index.ts 874-879: sendDecisionNotification puts a button on the
\* keyboard of its message, with the callback data shortenCallbackData gives
ButtonSent(button) ==
    /\ Len(keyboard) < MaxButtons
    /\ _idMap' = shortenId(_idMap, button.arg)
    /\ keyboard' = Append(keyboard, [button |-> button,
                                     data |-> shortenCallbackData(button)])
    /\ UNCHANGED <<orchestratorVars, gatingVars, rangeVars, engineVars,
                   collectVars, storeCalls, email_tracking>>

IdNext ==
    \/ \E button \in ButtonsOf : ButtonSent(button)
    \/ \E i \in DOMAIN keyboard : CallbackQuery(keyboard[i].data)

IdSpec == IdInit /\ [][IdNext]_vars

\* ------------------------------- the orchestrator with the snooze buttons

\* the process starts on a Saturday at 21:00 local time, the decisions are
\* NONE or TEXT; the store is empty or holds an old row
StoreInit ==
    /\ world \in {w \in Worlds : w.response.input.decision \in {"NONE", "TEXT"}}
    /\ now = DateOfLocal(6 * SecondsPerDay + 21 * 3600)
    /\ _isRunning = FALSE
    /\ _isPaused = FALSE
    /\ _lastCycleResult = <<>>
    /\ checkin_log = <<>>
    /\ snoozed_items \in {<<>>, <<OldRow(now)>>}
    /\ inv = [p \in Invocations |-> IdleInvocation]
    /\ ticks = 0
    /\ main = "running"
    /\ gatingInput = NoGatingInput
    /\ gatingOutput = <<>>
    /\ rangeInput = NoRangeInput
    /\ rangeOutput = <<>>
    /\ engineInput = NoEngineInput
    /\ engineOutput = <<>>
    /\ fetches = NoFetches
    /\ collectRun = IdleInvocation
    /\ storeCalls = <<>>
    /\ _idMap = SentIdMap
    /\ email_tracking = <<>>
    /\ keyboard = SentKeyboard

\* cron ticks, presses of the force_check button and of the other buttons,
\* the /pause command and the steps of the cycles
StoreNext ==
    \/ CronTick
    \/ ForceButton
    \/ \E p \in Invocations : CollectDone(p)
    \/ \E p \in Invocations : EnrichDone(p)
    \/ \E p \in Invocations : DecideDone(p)
    \/ \E p \in Invocations : NotifyDone(p)
    \/ \E p \in Invocations : ErrorNoticeDone(p)
    \/ PauseCommand
    \/ \E data \in Buttons : CallbackQuery(data)

StoreSpec == StoreInit /\ [][StoreNext]_vars

\* ------------------------------------------------- runs of collectContext

\* what a fetch can settle to: up to MaxItems items, or a failure
FetchOutcomes(src) ==
    {Fulfilled(Items(src, n)) : n \in 0..MaxItems}
    \cup {Rejected(m) : m \in {"timeout", "unauthorized"}}

\* scheduler.ts 21-65: a cron tick that passed the gate has called
\* collectContext, which has launched the three fetches
CollectInit ==
    /\ now = 0
    /\ _isRunning = TRUE
    /\ _isPaused = FALSE
    /\ _lastCycleResult = <<>>
    /\ checkin_log = <<>>
    /\ snoozed_items = <<>>
    /\ inv = [p \in Invocations |-> IdleInvocation]
    /\ ticks = 0
    /\ main = "running"
    /\ world = NoWorld
    /\ gatingInput = NoGatingInput
    /\ gatingOutput = <<>>
    /\ rangeInput = NoRangeInput
    /\ rangeOutput = <<>>
    /\ engineInput = NoEngineInput
    /\ engineOutput = <<>>
    /\ fetches = NoFetches
    /\ collectRun = [IdleInvocation EXCEPT
                        !.pc = "collecting",
                        !.trigger = "cron",
                        !.startedAt = now,
                        !.calls = <<"isPaused", "checkGating", "collectContext">>,
                        !.gatingResult = <<Proceed>>]
    /\ storeCalls = <<>>
    /\ _idMap = SentIdMap
    /\ email_tracking = <<>>
    /\ keyboard = SentKeyboard

\* one of the three fetches settles
FetchSettles(src) ==
    /\ collectRun.pc = "collecting"
    /\ fetches[src] = Pending
    /\ \E outcome \in FetchOutcomes(src) :
           fetches' = [fetches EXCEPT ![src] = outcome]
    /\ UNCHANGED <<orchestratorVars, gatingVars, rangeVars, engineVars, collectRun, storeCalls, botVars>>

\* collectors 75-129 and scheduler.ts 65-68: Promise.allSettled resolves,
\* collectContext reads the local data and returns
CollectReturns ==
    /\ collectRun.pc = "collecting"
    /\ allSettled(fetches)
    /\ \E localFails \in BOOLEAN :
           collectRun' = collectEnd(collectRun, fetches, localFails, now).rec
    /\ UNCHANGED <<orchestratorVars, gatingVars, rangeVars, engineVars, fetches, storeCalls, botVars>>

\* scheduler.ts 68-85: enrichEmails returns, the snoozes are swept and
\* makeDecision is called
EnrichReturns ==
    /\ collectRun.pc = "enriching"
    /\ \E dbFails \in SUBSET (1..MaxItems), sweepFails \in BOOLEAN,
          reply \in {"found", "none", "error"} :
           collectRun' = enrichEnd(collectRun,
                                   [id \in 1..(MaxItems + 1) |-> reply],
                                   dbFails, sweepFails, now).rec
    /\ UNCHANGED <<orchestratorVars, gatingVars, rangeVars, engineVars, fetches, storeCalls, botVars>>

CollectNext ==
    \/ \E src \in {"email", "calendar", "tasks"} : FetchSettles(src)
    \/ CollectReturns
    \/ EnrichReturns

CollectSpec == CollectInit /\ [][CollectNext]_vars

\* ------------------------------------------- properties of the orchestrator

\* invocation p has happened and its record is still kept
Happened(p) == inv[p].pc \notin {"idle", "retired"}

\* invocation p was neither turned away by the guard nor started while paused
Ran(p) == Happened(p) /\ ~inv[p].overlapped /\ ~inv[p].pausedAtStart

Has(calls, name) == \E i \in DOMAIN calls : calls[i] = name

\* the time of day of a Date is inside the default quiet hours (22:00-07:00),
\* inside the default focus hours (07:00-10:00)
InQuietHours(date) == getHours(date) >= 22 \/ getHours(date) < 7
InFocusHours(date) == getHours(date) >= 7 /\ getHours(date) < 10

\* C1: an invocation of runCycle that happens while an earlier invocation has
\* not returned returns at once, with a BLOCKED gating result whose reason is
\* "Previous cycle still running", having invoked no collaborator; it stays
\* returned: no later step runs any part of it.
C1_SingleFlightDrop ==
    \A p \in Invocations :
        inv[p].overlapped =>
            /\ inv[p].pc = "returned"
            /\ inv[p].calls = <<>>
            /\ inv[p].delivered = <<>>
            /\ inv[p].result # <<>>
            /\ inv[p].result[1].gatingResult.status = "BLOCKED"
            /\ inv[p].result[1].gatingResult.reason.kind = "Previous cycle still running"
            /\ inv[p].result[1].context = <<>>
            /\ inv[p].result[1].decision = <<>>

\* a cron tick was turned away while a forced cycle awaited the decision
C1_Witness ==
    \E p, q \in Invocations :
        /\ inv[p].overlapped
        /\ inv[p].trigger = "cron"
        /\ inv[p].pc = "returned"
        /\ inv[q].pc = "deciding"
        /\ inv[q].trigger = "force_command"

\* C2: in every reachable state at most one invocation of runCycle is between
\* its start and its return, whichever of the cron task, the /force command,
\* the force_check button and the startup cycle invoked it; the guard is set
\* exactly while one is.
C2_MutualExclusion ==
    /\ Cardinality({p \in Invocations : InFlight(p)}) <= 1
    /\ _isRunning <=> \E p \in Invocations : InFlight(p)

\* the startup cycle is in flight and a press of the force_check button was
\* turned away by the guard
C2_Witness ==
    \E p, q \in Invocations :
        /\ InFlight(p)
        /\ inv[p].trigger = "startup"
        /\ inv[q].trigger = "force_button"
        /\ inv[q].overlapped
        /\ inv[q].pc = "returned"

\* C3: no invocation of runCycle ends by throwing; an invocation that has
\* returned carries a CycleResult, and when its catch block received an error
\* the result's actionTaken is "Error: " followed by that error's message,
\* whether or not the plain-text error notice could be sent.
C3_NeverFailsOutward ==
    \A p \in Invocations :
        /\ inv[p].pc # "threw"
        /\ inv[p].pc = "returned" => inv[p].result # <<>>
        /\ (inv[p].pc = "returned" /\ inv[p].raised # <<>>) =>
               /\ Len(inv[p].raised) = 1
               /\ inv[p].result[1].actionTaken =
                      <<[kind |-> "Error", detail |-> inv[p].raised]>>
               /\ inv[p].result[1].gatingResult.status = "PROCEED"

\* the checkin-log write failed, the error notice failed as well, and the
\* invocation returned
C3_Witness ==
    \E p \in Invocations :
        /\ inv[p].pc = "returned"
        /\ inv[p].raised = <<"logCheckin">>
        /\ inv[p].swallowed = <<"sendPlainNotification">>

\* C4: an invocation that the guard lets in while the pause flag is set
\* returns a BLOCKED gating result whose reason is "Bot is paused by user",
\* and isPaused is the only collaborator it invokes.
C4_PauseShortCircuit ==
    \A p \in Invocations :
        (Happened(p) /\ inv[p].pausedAtStart /\ ~inv[p].overlapped) =>
            /\ inv[p].pc = "returned"
            /\ inv[p].calls = <<"isPaused">>
            /\ inv[p].delivered = <<>>
            /\ inv[p].result[1].gatingResult.status = "BLOCKED"
            /\ inv[p].result[1].gatingResult.reason.kind = "Bot is paused by user"
            /\ inv[p].result[1].context = <<>>
            /\ inv[p].result[1].decision = <<>>

\* a cron tick outside the quiet and focus hours found the bot paused
C4_Witness ==
    \E p \in Invocations :
        /\ inv[p].pc = "returned"
        /\ inv[p].trigger = "cron"
        /\ inv[p].pausedAtStart
        /\ ~inv[p].overlapped
        /\ ~InQuietHours(DateParse(inv[p].result[1].startedAt))
        /\ ~InFocusHours(DateParse(inv[p].result[1].startedAt))

\* C5: an invocation whose gating stage evaluated checkGating and got BLOCKED
\* returns a CycleResult that carries that gating result and neither context
\* nor decision; isPaused and checkGating are the only collaborators it
\* invokes, and it sends nothing.
C5_GatingBlockedDoesNothingElse ==
    \A p \in Invocations :
        (inv[p].gatingResult # <<>> /\ inv[p].gatingResult[1].status = "BLOCKED") =>
            /\ inv[p].pc = "returned"
            /\ inv[p].calls = <<"isPaused", "checkGating">>
            /\ inv[p].delivered = <<>>
            /\ inv[p].result[1].gatingResult = inv[p].gatingResult[1]
            /\ inv[p].result[1].context = <<>>
            /\ inv[p].result[1].decision = <<>>
            /\ inv[p].result[1].actionTaken = <<>>

\* a cron tick was blocked by the cooldown, a check-in being in the log
C5_Witness ==
    \E p \in Invocations :
        /\ inv[p].pc = "returned"
        /\ inv[p].trigger = "cron"
        /\ inv[p].gatingResult # <<>>
        /\ inv[p].gatingResult[1].reason.kind = "Cooldown"
        /\ checkin_log # <<>>

\* C6: an invocation with skipGating set that is neither turned away by the
\* guard nor started while paused does not invoke checkGating: its gating
\* result is PROCEED and the collaborator it invokes after isPaused is
\* collectContext.
C6_Bypass ==
    \A p \in Invocations :
        (Ran(p) /\ inv[p].skipGating) =>
            /\ ~Has(inv[p].calls, "checkGating")
            /\ inv[p].gatingResult = <<Proceed>>
            /\ Len(inv[p].calls) >= 2
            /\ inv[p].calls[1] = "isPaused"
            /\ inv[p].calls[2] = "collectContext"

\* a forced cycle that started inside the quiet hours, less than the cooldown
\* after the last check-in, is collecting
C6_Witness ==
    \E p \in Invocations :
        /\ inv[p].pc = "collecting"
        /\ inv[p].skipGating
        /\ InQuietHours(inv[p].startedAt)
        /\ checkin_log # <<>>
        /\ \A i \in DOMAIN checkin_log :
               inv[p].startedAt - (checkin_log[i].timestamp[1] * SecondsPerDay
                                   + checkin_log[i].timestamp[3])
                   < DEFAULT_GATING_CONFIG.cooldownMinutes * 60

\* C7: the startup cycle and every cycle the /force command or the
\* force_check button requests run with gating bypassed: unless turned away
\* by the guard or started while paused, none of them invokes checkGating or
\* ends with a BLOCKED gating result.
C7_BothTriggersBypass ==
    \A p \in Invocations :
        (Ran(p) /\ inv[p].trigger \in {"startup", "force_command", "force_button"}) =>
            /\ ~Has(inv[p].calls, "checkGating")
            /\ \A i \in DOMAIN inv[p].gatingResult :
                   inv[p].gatingResult[i].status = "PROCEED"
            /\ \A i \in DOMAIN inv[p].result :
                   inv[p].result[i].gatingResult.status = "PROCEED"

\* the startup cycle, started inside the quiet hours, was blocked by them
C7_StartupBlocked ==
    \E p \in Invocations :
        /\ Ran(p)
        /\ inv[p].trigger = "startup"
        /\ inv[p].pc = "returned"
        /\ InQuietHours(inv[p].startedAt)
        /\ inv[p].result[1].gatingResult.status = "BLOCKED"
        /\ inv[p].result[1].gatingResult.reason.kind = "Quiet hours"

\* ------------------------------------------------- properties of the gating

\* a window from minute `start` to minute `end` of the day holds minute `m`
InWindow(m, start, end) ==
    \/ start <= end /\ start <= m /\ m < end
    \/ start > end /\ (m >= start \/ m < end)

\* the rules that match the arguments of the evaluation
FocusMatches == InWindow(gatingInput.minute, gatingInput.focus[1], gatingInput.focus[2])

QuietMatches == InWindow(gatingInput.minute, gatingInput.quiet[1], gatingInput.quiet[2])

WeekendQuietMatches ==
    gatingInput.day % 7 \in {0, 6} /\ gatingInput.weekendMode = "quiet"

PickupMatches ==
    LET secondOfDay == gatingInput.minute * 60 + gatingInput.second
    IN  \E i \in DOMAIN gatingInput.pickups :
            /\ gatingInput.pickups[i] * 60 - secondOfDay >= 0
            /\ gatingInput.pickups[i] * 60 - secondOfDay <= gatingInput.reminder * 60

\* the cooldown rule compares the minutes between the stored timestamp, as
\* the process reads it, and now
CooldownMatches ==
    /\ gatingInput.last # <<>>
    /\ GatingDateOf(gatingInput) - DateParse(GatingLastOf(gatingInput)[1])
           < DEFAULT_GATING_CONFIG.cooldownMinutes * 60

FirstMatchingRule ==
    IF FocusMatches THEN "Focus hours"
    ELSE IF QuietMatches THEN "Quiet hours"
    ELSE IF WeekendQuietMatches THEN "Weekend quiet mode"
    ELSE IF PickupMatches THEN "Pickup window"
    ELSE IF CooldownMatches THEN "Cooldown"
    ELSE "none"

\* C8: checkGating returns BLOCKED with the reason of the first rule that
\* matches, in the order focus hours, quiet hours, weekend quiet mode, pickup
\* window, cooldown, and PROCEED exactly when no rule matches.
C8_GatingPrecedence ==
    gatingOutput # <<>> =>
        /\ gatingOutput[1].reason.kind = FirstMatchingRule
        /\ gatingOutput[1].status =
               IF FirstMatchingRule = "none" THEN "PROCEED" ELSE "BLOCKED"

\* all five rules match and the focus hours are the reason
C8_Witness ==
    /\ gatingOutput # <<>>
    /\ FocusMatches
    /\ QuietMatches
    /\ WeekendQuietMatches
    /\ PickupMatches
    /\ CooldownMatches
    /\ gatingOutput[1].reason.kind = "Focus hours"

\* C9: whenever the minute of the day is inside the quiet-hours window,
\* checkGating returns BLOCKED, whatever the last check-in, the weekend mode,
\* the day and the pickup times; when no other rule matches, the reason is
\* the quiet hours with the window's start and end strings.
C9_QuietHoursAbsolute ==
    (gatingOutput # <<>> /\ QuietMatches) =>
        /\ gatingOutput[1].status = "BLOCKED"
        /\ (~FocusMatches /\ ~WeekendQuietMatches /\ ~PickupMatches /\ ~CooldownMatches) =>
               gatingOutput[1].reason =
                   [kind |-> "Quiet hours",
                    args |-> <<HHMM(gatingInput.quiet[1]), HHMM(gatingInput.quiet[2])>>]

\* a Monday, one minute before the end of a window that wraps past midnight,
\* the last check-in ten hours old: blocked by the quiet hours
C9_Witness ==
    /\ gatingOutput # <<>>
    /\ gatingInput.quiet[1] > gatingInput.quiet[2]
    /\ gatingInput.minute = gatingInput.quiet[2] - 1
    /\ gatingInput.day = 8
    /\ gatingInput.last = <<600 * 60>>
    /\ ~FocusMatches
    /\ ~PickupMatches
    /\ gatingOutput[1].reason.kind = "Quiet hours"

\* C10: isInTimeRange(now, start, end) is true exactly when start <= end and
\* start <= now < end, or start > end and (now >= start or now < end); the
\* start minute is inside, the end minute is outside, and a window whose
\* start equals its end is never active.
C10_TimeWindowMatching ==
    rangeOutput # <<>> =>
        /\ rangeOutput[1] = InWindow(rangeInput.current, rangeInput.start, rangeInput.end)
        /\ (rangeInput.current = rangeInput.start /\ rangeInput.start # rangeInput.end)
               => rangeOutput[1]
        /\ rangeInput.current = rangeInput.end => ~rangeOutput[1]
        /\ rangeInput.start = rangeInput.end => ~rangeOutput[1]

\* a window that wraps past midnight holds its start minute
C10_Witness ==
    /\ rangeOutput = <<TRUE>>
    /\ rangeInput.start > rangeInput.end
    /\ rangeInput.current = rangeInput.start

\* the second of the day of the evaluation, local time
NowSecondOfDay == gatingInput.minute * 60 + gatingInput.second

\* the pickup times p with now in [p - pickupReminderMinutes, p], the bounds
\* taken on the day of now
PickupsDue ==
    {gatingInput.pickups[i] : i \in
        {j \in DOMAIN gatingInput.pickups :
            /\ gatingInput.pickups[j] * 60 - gatingInput.reminder * 60 <= NowSecondOfDay
            /\ NowSecondOfDay <= gatingInput.pickups[j] * 60}}

\* C11: when neither the focus hours, the quiet hours nor the weekend quiet
\* mode match, checkGating blocks with the pickup-window reason exactly when
\* now is in [p - pickupReminderMinutes, p] for a configured pickup time p,
\* and the reason names such a p; a second after p, or a second before
\* p - pickupReminderMinutes, the rule does not block.
C11_PickupWindow ==
    (gatingOutput # <<>> /\ ~FocusMatches /\ ~QuietMatches /\ ~WeekendQuietMatches) =>
        /\ gatingOutput[1].reason.kind = "Pickup window" <=> PickupsDue # {}
        /\ gatingOutput[1].reason.kind = "Pickup window" =>
               /\ gatingOutput[1].status = "BLOCKED"
               /\ \E p \in PickupsDue : gatingOutput[1].reason.args = <<HHMM(p)>>

\* now is exactly pickupReminderMinutes before the second of two pickup
\* times, and the pickup window blocks
C11_Witness ==
    /\ gatingOutput # <<>>
    /\ Len(gatingInput.pickups) = 2
    /\ gatingInput.reminder > 0
    /\ NowSecondOfDay = gatingInput.pickups[2] * 60 - gatingInput.reminder * 60
    /\ gatingInput.pickups[1] * 60 < NowSecondOfDay
    /\ gatingOutput[1].reason = [kind |-> "Pickup window",
                                 args |-> <<HHMM(gatingInput.pickups[2])>>]

\* C12: when no focus, quiet, weekend-quiet or pickup rule matches,
\* checkGating returns BLOCKED exactly when a last check-in exists and fewer
\* than cooldownMinutes have elapsed since it was logged, the reason then
\* carrying the rounded elapsed minutes and cooldownMinutes; otherwise it
\* returns PROCEED.
C12_CooldownRule ==
    (/\ gatingOutput # <<>>
     /\ ~FocusMatches /\ ~QuietMatches /\ ~WeekendQuietMatches /\ PickupsDue = {}) =>
        IF /\ gatingInput.last # <<>>
           /\ gatingInput.last[1] < DEFAULT_GATING_CONFIG.cooldownMinutes * 60
        THEN gatingOutput[1] =
                 [status |-> "BLOCKED",
                  reason |-> [kind |-> "Cooldown",
                              args |-> <<(gatingInput.last[1] + 30) \div 60,
                                         DEFAULT_GATING_CONFIG.cooldownMinutes>>]]
        ELSE gatingOutput[1].status = "PROCEED"

\* the last check-in was logged 200 minutes ago, the cooldown is 120 minutes,
\* no other rule matches, and the cooldown blocks
C12_BlockedAfterCooldown ==
    /\ gatingOutput # <<>>
    /\ ~FocusMatches /\ ~QuietMatches /\ ~WeekendQuietMatches /\ PickupsDue = {}
    /\ gatingInput.last = <<200 * 60>>
    /\ gatingOutput[1].status = "BLOCKED"
    /\ gatingOutput[1].reason.kind = "Cooldown"

\* ------------------------------------ properties of the orchestrator, continued

\* C13: on a Saturday or Sunday, a cycle whose decision is TEXT with an
\* urgency below weekendUrgencyThreshold delivers no decision notification.
C13_WeekendUrgencyThreshold ==
    \A p \in Invocations :
        (/\ inv[p].decision # <<>>
         /\ getDay(inv[p].startedAt) \in {0, 6}
         /\ inv[p].decision[1].decision = "TEXT"
         /\ inv[p].decision[1].urgency < DEFAULT_GATING_CONFIG.weekendUrgencyThreshold) =>
            ~Has(inv[p].delivered, "sendDecisionNotification")

\* a Saturday cycle decided TEXT with urgency 4, the threshold being 7, and
\* its decision notification was delivered
C13_LowUrgencyTextDelivered ==
    \E p \in Invocations :
        /\ inv[p].pc = "returned"
        /\ getDay(inv[p].startedAt) = 6
        /\ inv[p].decision # <<>>
        /\ inv[p].decision[1].decision = "TEXT"
        /\ inv[p].decision[1].urgency = 4
        /\ inv[p].delivered = <<"sendDecisionNotification">>

\* C14: every call of checkGating resolves to PROCEED or to BLOCKED with a
\* reason: the cycle that called it holds a gating result and none of its
\* errors comes from the gating stage.
C14_GatingTotal ==
    \A p \in Invocations :
        Has(inv[p].calls, "checkGating") =>
            /\ inv[p].gatingResult # <<>>
            /\ inv[p].gatingResult[1].status \in {"PROCEED", "BLOCKED"}
            /\ ~Has(inv[p].raised, "getLastCheckinTimestamp")

\* the read of the last check-in timestamp failed inside checkGating: the
\* cycle holds no gating result and returned the error result
C14_StoreReadThrows ==
    \E p \in Invocations :
        /\ inv[p].pc = "returned"
        /\ Has(inv[p].calls, "checkGating")
        /\ inv[p].gatingResult = <<>>
        /\ inv[p].raised = <<"getLastCheckinTimestamp">>

\* the decisions the orchestrator holds, and the urgencies it logged
DecisionsHeld == {inv[p].decision[1] : p \in {q \in Invocations : inv[q].decision # <<>>}}

UrgenciesLogged == {checkin_log[i].urgency : i \in DOMAIN checkin_log}

RawIsValid ==
    /\ engineInput.kind = "toolUse"
    /\ engineInput.input.decision \in {"NONE", "TEXT", "CALL"}

\* the integer nearest to a number given in tenths, a half going upward
Nearest(tenths) ==
    CHOOSE n \in (0 - MaxRawUrgency - 1)..(MaxRawUrgency + 1) :
        10 * n - 5 <= tenths /\ tenths < 10 * n + 5

\* C16: for a raw response whose decision kind is NONE, TEXT or CALL, the
\* validated urgency is min(10, max(1, round(raw urgency))), the kind, the
\* summary and the reasoning are the raw ones, and the actionButtons are the
\* raw ones, or the empty list when the field is absent.
C16_UrgencyClamping ==
    (engineOutput # <<>> /\ RawIsValid) =>
        LET raw == engineInput.input
            out == engineOutput[1]
            n == Nearest(raw.urgency)
        IN  /\ out.urgency = (IF n < 1 THEN 1 ELSE IF n > 10 THEN 10 ELSE n)
            /\ out.decision = raw.decision
            /\ out.summary = raw.summary
            /\ out.reasoning = raw.reasoning
            /\ raw.actionButtons = <<>> => out.actionButtons = <<>>
            /\ raw.actionButtons # <<>> => out.actionButtons = raw.actionButtons[1]

\* a raw urgency of 2.5 without actionButtons was validated to urgency 3
C16_Witness ==
    /\ engineOutput # <<>>
    /\ RawIsValid
    /\ engineInput.input.urgency = 25
    /\ engineInput.input.actionButtons = <<>>
    /\ engineOutput[1].urgency = 3
    /\ engineOutput[1].actionButtons = <<>>

\* C17: for a raw response whose decision kind is not exactly NONE, TEXT or
\* CALL, makeDecision returns the fallback: decision NONE, urgency 0, no
\* actionButtons, summary and reasoning made of fixed text and the offending
\* kind, whatever the raw urgency, summary, reasoning and buttons.
C17_UnrecognizedKind ==
    (/\ engineOutput # <<>>
     /\ engineInput.kind = "toolUse"
     /\ engineInput.input.decision \notin {"NONE", "TEXT", "CALL"}) =>
        engineOutput[1] =
            [decision |-> "NONE",
             urgency |-> 0,
             summary |-> <<"Decision engine error: ", "Invalid decision: ",
                           engineInput.input.decision>>,
             reasoning |-> <<"Fallback due to error: ", "Invalid decision: ",
                             engineInput.input.decision>>,
             actionButtons |-> <<>>]

\* the raw decision {MAYBE, urgency 15} with buttons became the fallback
C17_Witness ==
    /\ engineOutput # <<>>
    /\ engineInput.kind = "toolUse"
    /\ engineInput.input.decision = "MAYBE"
    /\ engineInput.input.urgency = 150
    /\ engineInput.input.actionButtons # <<>>
    /\ engineOutput[1].decision = "NONE"
    /\ engineOutput[1].urgency = 0

CalledAfter(calls, name) ==
    {calls[i + 1] : i \in {j \in DOMAIN calls : calls[j] = name /\ j < Len(calls)}}

\* the notifications of the decision that were delivered
DecisionNotices(p) ==
    SelectSeq(inv[p].delivered,
              LAMBDA m : m \in {"sendDecisionNotification", "sendNoneNotification"})

C20_ExactlyOneNotification ==
    \A p \in Invocations :
        (/\ inv[p].pc = "returned"
         /\ inv[p].decision # <<>>
         /\ inv[p].swallowed = <<>>
         /\ ~Has(inv[p].raised, "sendDecisionNotification")) =>
            DecisionNotices(p) =
                IF inv[p].decision[1].decision \in {"TEXT", "CALL"}
                THEN <<"sendDecisionNotification">>
                ELSE <<"sendNoneNotification">>

\* a cycle that started unpaused decided TEXT, nothing failed, it logged the
\* check-in and reported a sent notification, and nothing was delivered
C20_NothingDelivered ==
    \E p \in Invocations :
        /\ inv[p].pc = "returned"
        /\ ~inv[p].pausedAtStart
        /\ inv[p].decision # <<>>
        /\ inv[p].decision[1].decision = "TEXT"
        /\ inv[p].raised = <<>>
        /\ inv[p].swallowed = <<>>
        /\ inv[p].delivered = <<>>
        /\ inv[p].result[1].actionTaken # <<>>
        /\ inv[p].result[1].actionTaken[1].kind = "Sent notification"

\* ---------------------------------------- properties of failed notifications

\* the number of times `name` occurs in `calls`
Count(calls, name) == Len(SelectSeq(calls, LAMBDA c : c = name))

\* the last `n` elements of `calls`
Last(calls, n) == SubSeq(calls, Len(calls) - n + 1, Len(calls))

\* the send of `sender` failed in invocation p
SendFailed(p, sender) ==
    Has(inv[p].raised, sender) \/ Has(inv[p].swallowed, sender)

\* a step in which invocation p calls logCheckin
LogsCheckin(p) ==
    /\ Count(inv'[p].calls, "logCheckin") = Count(inv[p].calls, "logCheckin") + 1
    /\ inv'[p].raised = inv[p].raised \/ Has(inv'[p].raised, "logCheckin")

\* C21: when the send of a TEXT or CALL notification fails, the failure
\* reaches the catch block of runCycle, which calls sendPlainNotification
\* once and nothing after it; the invocation does not throw, whether or not
\* that notice can be sent, and returns a CycleResult whose actionTaken is
\* the error; it never calls logCheckin, and in no step of it do the checkin
\* log or the last cycle result change.
C21_PrimaryNotificationFailure ==
    [][\A p \in Invocations :
           /\ ~Has(inv'[p].swallowed, "sendDecisionNotification")
           /\ Has(inv'[p].raised, "sendDecisionNotification") =>
                  /\ inv'[p].raised = <<"sendDecisionNotification">>
                  /\ inv'[p].decision[1].decision \in {"TEXT", "CALL"}
                  /\ Last(inv'[p].calls, 2) =
                         <<"sendDecisionNotification", "sendPlainNotification">>
                  /\ Count(inv'[p].calls, "sendPlainNotification") = 1
                  /\ ~Has(inv'[p].calls, "logCheckin")
                  /\ inv'[p].pc \in {"errorNotice", "returned"}
                  /\ inv'[p].pc = "returned" =>
                         /\ inv'[p].result[1].actionTaken =
                                <<[kind |-> "Error",
                                   detail |-> <<"sendDecisionNotification">>]>>
                         /\ inv'[p].result[1].decision = <<>>
                  /\ checkin_log' = checkin_log
                  /\ _lastCycleResult' = _lastCycleResult]_vars

\* the send of a decision notification failed, the error notice failed too,
\* the invocation returned and the checkin log is empty
C21_Witness ==
    \E p \in Invocations :
        /\ inv[p].pc = "returned"
        /\ inv[p].raised = <<"sendDecisionNotification">>
        /\ inv[p].swallowed = <<"sendPlainNotification">>
        /\ inv[p].result[1].actionTaken # <<>>
        /\ inv[p].result[1].actionTaken[1].kind = "Error"
        /\ checkin_log = <<>>
        /\ _lastCycleResult = <<>>

\* C22: when the send of the silent NONE notification fails, the failure
\* does not reach the catch block of runCycle: logCheckin is the next call,
\* and unless logCheckin itself fails no error notice is sent, the row of
\* the NONE decision is in the checkin log, and the invocation returns a
\* CycleResult with the decision and actionTaken "No action needed", which
\* becomes the last cycle result.
C22_SilentFailureSwallowed ==
    \A p \in Invocations :
        SendFailed(p, "sendNoneNotification") =>
            /\ ~Has(inv[p].raised, "sendNoneNotification")
            /\ inv[p].swallowed[1] = "sendNoneNotification"
            /\ inv[p].decision[1].decision = "NONE"
            /\ CalledAfter(inv[p].calls, "sendNoneNotification") = {"logCheckin"}
            /\ inv[p].raised \in {<<>>, <<"logCheckin">>}
            /\ inv[p].raised = <<>> =>
                   /\ inv[p].pc = "returned"
                   /\ ~Has(inv[p].calls, "sendPlainNotification")
                   /\ inv[p].delivered = <<>>
                   /\ inv[p].result[1].decision = inv[p].decision
                   /\ inv[p].result[1].actionTaken =
                          <<[kind |-> "No action needed", detail |-> <<>>]>>
                   /\ _lastCycleResult = inv[p].result
                   /\ checkin_log # <<>>
                   /\ checkin_log[Len(checkin_log)].decision = "NONE"
                   /\ checkin_log[Len(checkin_log)].urgency =
                          inv[p].decision[1].urgency
                   /\ checkin_log[Len(checkin_log)].timestamp[1] * SecondsPerDay
                          + checkin_log[Len(checkin_log)].timestamp[3]
                              >= inv[p].startedAt

\* the send of the silent notification of a genuine NONE failed and the
\* invocation returned normally, its row logged
C22_Witness ==
    \E p \in Invocations :
        /\ inv[p].pc = "returned"
        /\ inv[p].swallowed = <<"sendNoneNotification">>
        /\ inv[p].raised = <<>>
        /\ inv[p].decision[1].urgency >= 1
        /\ Len(checkin_log) = 1
        /\ _lastCycleResult = inv[p].result

\* -------------------------------------------- properties of collectContext

\* the ids of a list of items
Ids(items) == [i \in DOMAIN items |-> items[i].id]

\* the sources whose fetch was rejected
FailedSources == {src \in DOMAIN fetches : fetches[src].status = "rejected"}

\* what the context holds for a source
ContextItems(context, src) ==
    IF src = "email" THEN context.emails
    ELSE IF src = "calendar" THEN context.calendar
    ELSE context.tasks

\* C23: whichever of the three fetches fail, collectContext returns only
\* when all three have settled; the context it returns holds the items of
\* every fetch that succeeded, an empty list for every fetch that failed and
\* in sourceErrors exactly one entry "<source>: <message>" per failed fetch;
\* and the invocation calls makeDecision with that context once enrichEmails
\* and the snooze sweep have returned: a failed fetch puts nothing in the
\* catch block.
C23_PartialFailureJoin ==
    /\ collectRun.pc # "collecting" =>
           \A src \in DOMAIN fetches : fetches[src].status \in {"fulfilled", "rejected"}
    /\ \A i \in DOMAIN collectRun.raised :
           collectRun.raised[i] \in {"collectContext", "enrichEmails",
                                     "cleanExpiredSnoozes"}
    /\ collectRun.context # <<>> =>
           LET context == collectRun.context[1]
           IN  /\ \A src \in DOMAIN fetches :
                      IF src \in FailedSources
                      THEN ContextItems(context, src) = <<>>
                      ELSE /\ Ids(ContextItems(context, src)) = Ids(fetches[src].value)
                           /\ src # "email" =>
                                  ContextItems(context, src) = fetches[src].value
               /\ Len(context.sourceErrors) = Cardinality(FailedSources)
               /\ \A src \in FailedSources :
                      Cardinality({i \in DOMAIN context.sourceErrors :
                                      context.sourceErrors[i] =
                                          <<src, ": ", fetches[src].reason>>}) = 1
               /\ \A src \in DOMAIN fetches :
                      Has(context.sourcesAvailable, src) <=> src \notin FailedSources
               /\ collectRun.raised = <<>> => collectRun.pc \in {"enriching", "deciding"}
               /\ collectRun.pc = "deciding" =>
                      Last(collectRun.calls, 3) =
                          <<"enrichEmails", "cleanExpiredSnoozes", "makeDecision">>

\* the mail and the task fetch failed, the calendar fetch returned two
\* events, and makeDecision has been called with them and the two failures
C23_Witness ==
    /\ fetches["email"] = Rejected("timeout")
    /\ fetches["tasks"] = Rejected("unauthorized")
    /\ fetches["calendar"].status = "fulfilled"
    /\ collectRun.pc = "deciding"
    /\ Len(collectRun.context[1].calendar) = 2
    /\ collectRun.context[1].sourceErrors =
           <<<<"email", ": ", "timeout">>, <<"tasks", ": ", "unauthorized">>>>

\* ------------------------------------------------ properties of the stages

\* the collaborators of a cycle that runs to its end, in the order of the
\* stages; `kind` is the kind of its decision
StageCalls(skipGating, kind) ==
    <<"isPaused">>
    \o (IF skipGating THEN <<>> ELSE <<"checkGating">>)
    \o <<"collectContext", "enrichEmails", "cleanExpiredSnoozes", "makeDecision">>
    \o <<IF kind \in {"TEXT", "CALL"}
         THEN "sendDecisionNotification"
         ELSE "sendNoneNotification">>
    \o <<"logCheckin">>

IsPrefix(a, b) == Len(a) <= Len(b) /\ a = SubSeq(b, 1, Len(a))

\* the calls of a cycle but for the error notice of its catch block
BeforeNotice(calls) == SelectSeq(calls, LAMBDA c : c # "sendPlainNotification")

\* the await or return an invocation is at after its last stage call
PcAfter(call) ==
    IF call = "collectContext" THEN {"collecting"}
    ELSE IF call = "enrichEmails" THEN {"enriching"}
    ELSE IF call = "makeDecision" THEN {"deciding"}
    ELSE IF call \in {"sendDecisionNotification", "sendNoneNotification"}
    THEN {"notifying"}
    ELSE {"returned"}

LastCheckinInstant ==
    LET stamp == getLastCheckinTimestamp(checkin_log)[1]
    IN  stamp[1] * SecondsPerDay + stamp[3]

\* C25: once a completed cycle has logged its check-in, the gate of every
\* cycle that starts fewer than cooldownMinutes after it and is not bypassed
\* answers BLOCKED, by the cooldown rule unless the quiet hours or the focus
\* hours block it first.
C25_CompletionStartsCooldown ==
    (/\ gatingOutput # <<>>
     /\ checkin_log # <<>>
     /\ now - LastCheckinInstant < DEFAULT_GATING_CONFIG.cooldownMinutes * 60) =>
        /\ gatingOutput[1].status = "BLOCKED"
        /\ (~InQuietHours(now) /\ ~InFocusHours(now)) =>
               gatingOutput[1].reason.kind = "Cooldown"

\* a cycle logged its check-in at noon, and a minute later the gate of the
\* next cycle answers PROCEED
C25_ProceedsWithinCooldown ==
    /\ checkin_log # <<>>
    /\ now - LastCheckinInstant = 60
    /\ gatingOutput = <<Proceed>>

\* --------------------------------------------- properties of the snooze store

\* the rows of a key
RowsOf(rows, sourceType, sourceId) ==
    SelectSeq(rows, LAMBDA row :
        row.source_type = sourceType /\ row.source_id = sourceId)

\* the rows of the other keys
RowsBut(rows, sourceType, sourceId) ==
    SelectSeq(rows, LAMBDA row :
        ~(row.source_type = sourceType /\ row.source_id = sourceId))

\* the last entry of storeCalls
LastCall == storeCalls[Len(storeCalls)]

\* the key a call of snoozeItem wrote, directly or from a snooze button
WrittenType(call) ==
    IF call.op = "se:" THEN "email"
    ELSE IF call.op = "st:" THEN "task"
    ELSE call.type
WrittenId(call) ==
    IF call.op \in {"se:", "st:"}
    THEN (IF call.id = "413055e0" THEN "conversation-1" ELSE "task-1")
    ELSE call.id

\* the instant a timestamp string names, whatever its layout
InstantOf(stamp) == stamp[1] * SecondsPerDay + stamp[3]

\* C26: a call of snoozeItem, made directly or by a snooze button, leaves
\* exactly one row for its (sourceType, sourceId), whose snooze_until is the
\* expiry of that call, also when the row existed with a later expiry; the
\* store grows by one row only when the key had none, and the rows of the
\* other keys stay as they were.  No state holds two rows of one key.
C26_SnoozeUpsert ==
    [][/\ \A i, j \in DOMAIN snoozed_items' :
              (/\ snoozed_items'[i].source_type = snoozed_items'[j].source_type
               /\ snoozed_items'[i].source_id = snoozed_items'[j].source_id) => i = j
       /\ (/\ storeCalls' # storeCalls
           /\ storeCalls'[Len(storeCalls')].op \in {"snoozeItem", "se:", "st:"}) =>
              LET call == storeCalls'[Len(storeCalls')]
                  type == WrittenType(call)
                  id == WrittenId(call)
              IN  /\ Len(RowsOf(snoozed_items', type, id)) = 1
                  /\ RowsOf(snoozed_items', type, id)[1].snooze_until = call.until[1]
                  /\ RowsBut(snoozed_items', type, id) = RowsBut(snoozed_items, type, id)
                  /\ Len(snoozed_items') =
                         Len(snoozed_items)
                         + (IF RowsOf(snoozed_items, type, id) = <<>> THEN 1 ELSE 0)
                  /\ RowsOf(snoozed_items, type, id) # <<>> =>
                         RowsOf(snoozed_items', type, id)[1].created_at =
                             RowsOf(snoozed_items, type, id)[1].created_at]_vars

\* an email snoozed by its button for two hours was snoozed again, for one
\* hour: its one row carries the earlier expiry
C26_Witness ==
    /\ Len(storeCalls) = 2
    /\ storeCalls[1].op = "se:"
    /\ storeCalls[2].op = "snoozeItem"
    /\ InstantOf(storeCalls[2].until[1]) < InstantOf(storeCalls[1].until[1])
    /\ Len(snoozed_items) = 1
    /\ snoozed_items[1].source_id = "conversation-1"
    /\ snoozed_items[1].snooze_until = storeCalls[2].until[1]

\* C27: isSnoozed(type, id) called at time t answers true exactly when the
\* store holds a row of (type, id) whose snooze_until is an instant strictly
\* later than t; so it answers false once the expiry a snooze button wrote
\* has passed, swept or not.
C27_LazyExpiry ==
    (storeCalls # <<>> /\ LastCall.op = "isSnoozed") =>
        (LastCall.result <=>
            \E i \in DOMAIN snoozed_items :
                /\ snoozed_items[i].source_type = LastCall.type
                /\ snoozed_items[i].source_id = LastCall.id
                /\ InstantOf(snoozed_items[i].snooze_until) > LastCall.at)

\* the snooze email button was pressed at noon; three hours later, an hour
\* after the expiry, isSnoozed answers true
C27_SnoozedAfterExpiry ==
    /\ Len(storeCalls) = 2
    /\ storeCalls[1].op = "se:"
    /\ storeCalls[2].op = "isSnoozed"
    /\ storeCalls[2].id = "conversation-1"
    /\ storeCalls[2].at = storeCalls[1].at + 3 * 3600
    /\ storeCalls[2].result

\* C28: after a press of the snooze email or snooze task button the store
\* holds a row of that item whose snooze_until is the time of the press plus
\* two hours, and after a press of "snooze everything" it holds a row whose
\* snooze_until is the time of the press plus one hour.
C28_SnoozeButtons ==
    storeCalls # <<>> =>
        /\ LastCall.op = "se:" =>
               \E i \in DOMAIN snoozed_items :
                   /\ snoozed_items[i].source_type = "email"
                   /\ snoozed_items[i].source_id = "conversation-1"
                   /\ snoozed_items[i].snooze_until[2] = 1
                   /\ InstantOf(snoozed_items[i].snooze_until) =
                          LastCall.at + 2 * 3600
        /\ LastCall.op = "st:" =>
               \E i \in DOMAIN snoozed_items :
                   /\ snoozed_items[i].source_type = "task"
                   /\ snoozed_items[i].source_id = "task-1"
                   /\ snoozed_items[i].snooze_until[2] = 1
                   /\ InstantOf(snoozed_items[i].snooze_until) =
                          LastCall.at + 2 * 3600
        /\ LastCall.op = "snooze_all" =>
               \E i \in DOMAIN snoozed_items :
                   InstantOf(snoozed_items[i].snooze_until) = LastCall.at + 3600

\* "snooze everything" was pressed on a notification whose email had been
\* snoozed before, and the store holds that one row with its old expiry
C28_SnoozeAllWritesNothing ==
    /\ Len(storeCalls) = 2
    /\ storeCalls[1].op = "se:"
    /\ storeCalls[2].op = "snooze_all"
    /\ storeCalls[2].at = storeCalls[1].at + 3600
    /\ Len(snoozed_items) = 1
    /\ InstantOf(snoozed_items[1].snooze_until) = storeCalls[1].at + 2 * 3600

\* C29: the rows of the snooze store change only in a press of the snooze
\* email or snooze task button, no invocation of runCycle taking a step in
\* it, and in the step of an invocation that calls cleanExpiredSnoozes after
\* enrichEmails has returned; a press of any other button, the /pause
\* command, and every other step of an invocation - its start, whether it is
\* dropped, paused, blocked or goes on to collect, and its collection,
\* decision, notification, logging and error notice - leave them as they are.
C29_StoreOwnership ==
    [][snoozed_items' # snoozed_items =>
           \/ /\ inv' = inv
              /\ Len(storeCalls') = Len(storeCalls) + 1
              /\ storeCalls'[Len(storeCalls')].op \in {"se:", "st:"}
              /\ storeCalls'[Len(storeCalls')].at = now
           \/ /\ storeCalls' = storeCalls
              /\ \E p \in Invocations :
                     /\ inv[p].pc = "enriching"
                     /\ inv'[p].pc = "deciding"
                     /\ ~Has(inv[p].calls, "cleanExpiredSnoozes")
                     /\ Count(inv'[p].calls, "cleanExpiredSnoozes") = 1
                     /\ \A q \in Invocations \ {p} : inv'[q] = inv[q]]_vars

\* a cycle has swept the old row and gone on to the decision, and the snooze
\* task button has been pressed meanwhile: the store holds the task's row
C29_Witness ==
    /\ \E p \in Invocations :
           /\ inv[p].pc \in {"deciding", "notifying", "returned"}
           /\ Has(inv[p].calls, "cleanExpiredSnoozes")
    /\ Len(storeCalls) = 2
    /\ storeCalls[1].op = "mr:"
    /\ storeCalls[2].op = "st:"
    /\ Len(snoozed_items) = 1
    /\ snoozed_items[1].source_type = "task"

\* invocation p returns in this step, having passed the single-flight guard
CycleEnds(p) ==
    /\ inv[p].pc # "returned"
    /\ inv'[p].pc = "returned"
    /\ ~inv'[p].overlapped

\* the check-in that /status reports after this step is one that invocation p
\* has written
StatusReportsCycle(p) ==
    /\ Has(inv'[p].calls, "logCheckin")
    /\ ~Has(inv'[p].raised, "logCheckin")
    /\ \A report \in statusCommand(checkin_log') :
           /\ report.lastCycleTime # <<>>
           /\ InstantOf(report.lastCycleTime[1]) >= inv'[p].startedAt

\* C30: every cycle that runs to its end, blocked, successful or errored, and
\* whichever senders fail, has shown its outcome to the user when it
\* returns: it has delivered a message on the notification channel, or the
\* check-in that /status reports is the one it wrote.
C30_NoSilentCycle ==
    [][\A p \in Invocations :
           CycleEnds(p) =>
               \/ inv'[p].delivered # <<>>
               \/ StatusReportsCycle(p)]_vars

\* a cron cycle that the gate blocked while the bot was not paused has
\* returned: it delivered nothing and wrote no check-in, /status reports what
\* it reported before
C30_BlockedCycleIsSilent ==
    \E p \in Invocations :
        /\ inv[p].pc = "returned"
        /\ inv[p].trigger = "cron"
        /\ ~inv[p].overlapped
        /\ ~inv[p].pausedAtStart
        /\ inv[p].gatingResult # <<>>
        /\ inv[p].gatingResult[1].status = "BLOCKED"
        /\ ~Has(inv[p].calls, "collectContext")
        /\ inv[p].delivered = <<>>
        /\ inv[p].raised = <<>>

\* an errored cycle whose error notice could not be sent has returned: it
\* delivered nothing and wrote no check-in
C30_ErroredCycleIsSilent ==
    \E p \in Invocations :
        /\ inv[p].pc = "returned"
        /\ inv[p].raised # <<>>
        /\ Has(inv[p].swallowed, "sendPlainNotification")
        /\ inv[p].delivered = <<>>
        /\ ~Has(inv[p].calls, "logCheckin")

\* the cycles that proceed and finish without an error do show their
\* outcome: each has written the check-in that /status reports
C30_CompletedCycleIsReported ==
    [][\A p \in Invocations :
           (CycleEnds(p) /\ inv'[p].raised = <<>>
                /\ inv'[p].gatingResult # <<>>
                /\ inv'[p].gatingResult[1].status = "PROCEED") =>
               StatusReportsCycle(p)]_vars

\* the emails that the cycles have observed: those of the contexts that
\* collectContext returned
ObservedEmails ==
    UNION {{inv[p].context[1].emails[i] : i \in DOMAIN inv[p].context[1].emails} :
              p \in {q \in Invocations : inv[q].context # <<>>}}

\* the full id that the mark-read button of an email carries
MarkReadId(email) == IF email.id = 1 THEN "email-1" ELSE "email-2"

\* the rows of table email_tracking of a conversation
TrackingRows(rows, conversationId) ==
    {i \in DOMAIN rows : rows[i].conversation_id = conversationId}

\* C31: once a cycle has observed an email, table email_tracking holds a row
\* of its conversation; a press of the mark-read button of an email that a
\* cycle has observed leaves that row with last_notified set to the time of
\* the press; and no step removes a row of the table.
C31_EmailTrackingLifecycle ==
    [][/\ \A email \in ObservedEmails' :
              TrackingRows(email_tracking', email.conversationId) # {}
       /\ \A email \in ObservedEmails :
              (/\ Len(storeCalls') = Len(storeCalls) + 1
               /\ storeCalls'[Len(storeCalls')].op = "mr:"
               /\ resolveId(storeCalls'[Len(storeCalls')].id) = MarkReadId(email)) =>
                  \E i \in TrackingRows(email_tracking', email.conversationId) :
                      email_tracking'[i].last_notified = <<datetimeNow(now)>>
       /\ \A i \in DOMAIN email_tracking :
              TrackingRows(email_tracking', email_tracking[i].conversation_id) # {}]_vars

\* a cycle has observed the first email and its mark-read button was pressed
\* afterwards: table email_tracking holds no row
C31_MarkHandledUntracked ==
    /\ \E email \in ObservedEmails :
           /\ storeCalls # <<>>
           /\ storeCalls[Len(storeCalls)].op = "mr:"
           /\ resolveId(storeCalls[Len(storeCalls)].id) = MarkReadId(email)
           /\ \E p \in Invocations :
                  /\ inv[p].context # <<>>
                  /\ inv[p].startedAt <= storeCalls[Len(storeCalls)].at
    /\ email_tracking = <<>>
    /\ keyboard = SentKeyboard

\* enrichEmails settles in this step of the collectContext run
EnrichSettles ==
    /\ collectRun.pc = "enriching"
    /\ collectRun'.pc # "enriching"

\* C32: whatever fails while an email is annotated - the partnership lookup,
\* the domain tracking or the sent-reply check - enrichEmails does not raise
\* to runCycle: when it settles the catch block has received nothing from
\* it, the context holds every collected email once and in the collected
\* order, and the cycle goes on to the decision stage unless the sweep of
\* the snooze store fails.
C32_EnrichmentBestEffort ==
    [][EnrichSettles =>
           /\ ~Has(collectRun'.raised, "enrichEmails")
           /\ Ids(collectRun'.context[1].emails) = Ids(collectRun.context[1].emails)
           /\ \/ collectRun'.pc = "deciding"
              \/ collectRun'.raised = <<"cleanExpiredSnoozes">>]_vars

\* the partnership lookup of a collected email has thrown: enrichEmails
\* raised, the catch block received its error and the cycle is sending the
\* error notice, having called neither the sweep nor makeDecision
C32_LookupFailureAborts ==
    /\ collectRun.raised = <<"enrichEmails">>
    /\ collectRun.pc = "errorNotice"
    /\ collectRun.context[1].emails # <<>>
    /\ ~Has(collectRun.calls, "makeDecision")
    /\ ~Has(collectRun.calls, "cleanExpiredSnoozes")

\* with no email collected enrichEmails calls nothing that can fail, and
\* the sent-reply check fails into "no reply": the email of a partner
\* always carries hasReply once the enrichment has returned
C32_ReplyCheckIsBestEffort ==
    /\ (collectRun.context # <<>> /\ collectRun.context[1].emails = <<>>) =>
           ~Has(collectRun.raised, "enrichEmails")
    /\ collectRun.pc = "deciding" =>
           \A i \in DOMAIN collectRun.context[1].emails :
               collectRun.context[1].emails[i].partnershipInfo # <<>> =>
                   collectRun.context[1].emails[i].hasReply \in {<<TRUE>>, <<FALSE>>}

\* invocation p is turned away by the single-flight guard in this step
Rejected_StillRunning(p) ==
    /\ inv[p].pc = "idle"
    /\ inv'[p].pc = "returned"
    /\ inv'[p].result[1].gatingResult.reason.kind = "Previous cycle still running"

\* C33: the guard is set only while an invocation is parked at an await;
\* every invocation that passed the guard has cleared it when it returns,
\* whether it was paused, blocked, completed or failed, also when its error
\* notice failed; an invocation is turned away with "Previous cycle still
\* running" only while another one is parked; and, every collaborator call
\* returning or failing in the end, every invocation that is parked
\* eventually returns.
C33_GuardReleaseAndProgress ==
    /\ [](_isRunning => \E q \in Invocations : InFlight(q))
    /\ [][\A p \in Invocations : CycleEnds(p) => ~_isRunning']_vars
    /\ [][\A p \in Invocations :
              Rejected_StillRunning(p) => \E q \in Invocations : InFlight(q)]_vars
    /\ \A p \in Invocations :
           InFlight(p) ~> inv[p].pc \in {"returned", "retired"}

\* a cycle whose error notice could not be sent has returned and the guard
\* is clear
C33_FailedCycleReleasedGuard ==
    /\ ~_isRunning
    /\ \E p \in Invocations :
           /\ inv[p].pc = "returned"
           /\ inv[p].raised # <<>>
           /\ Has(inv[p].swallowed, "sendPlainNotification")

\* an invocation made after an earlier cycle has returned passed the guard
\* and is collecting
C33_LaterCycleAccepted ==
    \E p, q \in Invocations :
        /\ inv[p].pc = "retired"
        /\ inv[q].pc = "collecting"
        /\ ~inv[q].overlapped

\* C34: an invocation with skipGating set that starts while the pause flag
\* is set and is not turned away by the guard returns at once with a BLOCKED
\* gating result whose reason is "Bot is paused by user": it calls isPaused
\* and nothing else, holds no context and no decision and delivers nothing.
\* One that starts while another invocation is parked is turned away with
\* "Previous cycle still running", having called nothing.  Only an
\* invocation that is neither paused nor turned away has its gating
\* evaluation replaced by PROCEED.
C34_PauseDominatesBypass ==
    \A p \in Invocations :
        (inv[p].skipGating /\ inv[p].pc \notin {"idle", "retired"}) =>
            /\ (inv[p].pausedAtStart /\ ~inv[p].overlapped) =>
                   /\ inv[p].pc = "returned"
                   /\ inv[p].calls = <<"isPaused">>
                   /\ inv[p].gatingResult = <<>>
                   /\ inv[p].context = <<>>
                   /\ inv[p].decision = <<>>
                   /\ inv[p].delivered = <<>>
                   /\ inv[p].raised = <<>>
                   /\ inv[p].result[1].gatingResult =
                          Blocked("Bot is paused by user", <<>>)
            /\ inv[p].overlapped =>
                   /\ inv[p].pc = "returned"
                   /\ inv[p].calls = <<>>
                   /\ inv[p].result[1].gatingResult =
                          Blocked("Previous cycle still running", <<>>)
            /\ inv[p].gatingResult # <<>> =>
                   /\ ~inv[p].pausedAtStart
                   /\ ~inv[p].overlapped
                   /\ inv[p].gatingResult = <<Proceed>>

\* the /force command was given while the bot was paused: its cycle
\* returned blocked by the pause, the bot is still paused
C34_Witness ==
    \E p \in Invocations :
        /\ inv[p].trigger = "force_command"
        /\ inv[p].skipGating
        /\ inv[p].pausedAtStart
        /\ ~inv[p].overlapped
        /\ inv[p].pc = "returned"
        /\ _isPaused
        /\ ~_isRunning

\* invocation p starts in this step
Starts(p) == inv[p].pc = "idle" /\ inv'[p].pc # "idle"

\* invocation p starts and returns at once with a BLOCKED gating result: it
\* was dropped by the guard, started while paused, or blocked by the gate
StartsBlocked(p) ==
    /\ Starts(p)
    /\ inv'[p].pc = "returned"
    /\ inv'[p].result[1].gatingResult.status = "BLOCKED"

\* C35: a cycle that is dropped, paused or blocked by the gate leaves the
\* checkin log, the last check-in timestamp and the last cycle result as
\* they were; and a cron tick that starts at least cooldownMinutes after the
\* last check-in, outside the quiet and the focus hours, neither dropped nor
\* paused and able to read the store, passes the gate, however many blocked
\* ticks came before it.
C35_BlockedCyclesKeepCooldown ==
    [][\A p \in Invocations :
           /\ StartsBlocked(p) =>
                  /\ checkin_log' = checkin_log
                  /\ getLastCheckinTimestamp(checkin_log') =
                         getLastCheckinTimestamp(checkin_log)
                  /\ _lastCycleResult' = _lastCycleResult
           /\ (/\ Starts(p)
               /\ ~_isRunning
               /\ ~_isPaused
               /\ inv'[p].raised = <<>>
               /\ now - LastCheckinInstant >= DEFAULT_GATING_CONFIG.cooldownMinutes * 60
               /\ ~InQuietHours(now)
               /\ ~InFocusHours(now)) =>
                  /\ inv'[p].gatingResult = <<Proceed>>
                  /\ inv'[p].pc = "collecting"]_vars

\* a cron tick was blocked a minute after the last check-in, and the tick
\* that came cooldownMinutes after the check-in, at 14:00 local time, was
\* blocked by the cooldown rule as well; the log holds its one row
C35_BlockedAfterCooldown ==
    \E p \in Invocations :
        /\ inv[p].pc = "returned"
        /\ inv[p].trigger = "cron"
        /\ ~inv[p].overlapped
        /\ ~inv[p].pausedAtStart
        /\ inv[p].startedAt = now
        /\ Len(checkin_log) = 1
        /\ now - LastCheckinInstant = DEFAULT_GATING_CONFIG.cooldownMinutes * 60
        /\ getHours(now) = 14
        /\ inv[p].gatingResult # <<>>
        /\ inv[p].gatingResult[1].status = "BLOCKED"
        /\ inv[p].gatingResult[1].reason.kind = "Cooldown"
        /\ \E q \in Invocations : inv[q].pc = "retired"

\* the blocked cycles do leave the log, the last check-in timestamp and the
\* last cycle result as they were
C35_BlockedCyclesWriteNothing ==
    [][\A p \in Invocations :
           StartsBlocked(p) =>
               /\ checkin_log' = checkin_log
               /\ _lastCycleResult' = _lastCycleResult]_vars

\* the CycleResult that invocation p returned reports a sent TEXT or CALL
\* notification
ReportsSent(p) ==
    /\ inv[p].pc = "returned"
    /\ inv[p].result[1].actionTaken # <<>>
    /\ inv[p].result[1].actionTaken[1].kind = "Sent notification"
    /\ inv[p].result[1].actionTaken[1].detail[1] \in {"TEXT", "CALL"}

\* C36: when the CycleResult that a cycle returned says that a TEXT or CALL
\* notification was sent, sendDecisionNotification has delivered that
\* cycle's notification to the user channel, whenever /pause and /resume
\* were given while the cycle was parked at its awaits.
C36_ReportedActionMatchesDelivery ==
    \A p \in Invocations :
        ReportsSent(p) => Has(inv[p].delivered, "sendDecisionNotification")

\* /pause was given while a cycle that had started unpaused awaited its
\* collaborators: the cycle decided CALL, delivered nothing, and its result,
\* kept as the last cycle result, reports a sent CALL notification
C36_SuppressedButReported ==
    \E p \in Invocations :
        /\ ReportsSent(p)
        /\ inv[p].result[1].actionTaken[1].detail[1] = "CALL"
        /\ ~inv[p].pausedAtStart
        /\ _isPaused
        /\ inv[p].delivered = <<>>
        /\ inv[p].raised = <<>>
        /\ Has(inv[p].calls, "sendDecisionNotification")
        /\ _lastCycleResult = inv[p].result

\* a cycle that found the pause flag clear when it called the sender, and so
\* awaited the send, reports a sent notification only when it was delivered
C36_MatchesWhileUnpaused ==
    [][\A p \in Invocations :
           (inv[p].pc = "notifying" /\ ReportsSent(p)') =>
               Has(inv'[p].delivered, "sendDecisionNotification")]_vars

\* cleanExpiredSnoozes runs in this step
Sweeps ==
    /\ Len(storeCalls') = Len(storeCalls) + 1
    /\ storeCalls'[Len(storeCalls')].op = "cleanExpiredSnoozes"

\* C37: a run of cleanExpiredSnoozes removes every row whose snooze_until is
\* at or before the time of the run and keeps, as they are and in their
\* order, the rows whose snooze_until is later: no snooze ends early, and
\* every row left by the sweep is one that isSnoozed answers true for.
C37_SweepExactness ==
    [][Sweeps =>
           /\ snoozed_items' =
                  SelectSeq(snoozed_items,
                            LAMBDA row : InstantOf(row.snooze_until) > now)
           /\ \A i \in DOMAIN snoozed_items' :
                  isSnoozed(snoozed_items', snoozed_items'[i].source_type,
                            snoozed_items'[i].source_id, now)]_vars

\* the sweep has just run, an hour or more after the expiry of a snooze that
\* a button wrote the same day, and the row is still in the store
C37_ExpiredRowSurvivesSweep ==
    /\ storeCalls # <<>>
    /\ LastCall.op = "cleanExpiredSnoozes"
    /\ LastCall.at = now
    /\ \E i \in DOMAIN snoozed_items :
           /\ now - InstantOf(snoozed_items[i].snooze_until) >= 3600
           /\ snoozed_items[i].snooze_until[1] = now \div SecondsPerDay

\* the sweep never ends a snooze early, and it removes the rows that expired
\* on an earlier day
C37_SweepNeverEarly ==
    [][Sweeps =>
           /\ \A i \in DOMAIN snoozed_items :
                  InstantOf(snoozed_items[i].snooze_until) > now =>
                      \E j \in DOMAIN snoozed_items' :
                          snoozed_items'[j] = snoozed_items[i]
           /\ \A j \in DOMAIN snoozed_items' :
                  snoozed_items'[j].snooze_until[1] >= now \div SecondsPerDay]_vars

\* the entries of sourceErrors that carry the prefix of a source
ErrorsOf(context, src) ==
    {i \in DOMAIN context.sourceErrors :
        /\ context.sourceErrors[i][1] = src
        /\ context.sourceErrors[i][2] = ": "}

\* C38: in every context that collectContext returned, each of "email",
\* "calendar" and "tasks" is recorded once: either once in sourcesAvailable
\* and in no entry of sourceErrors, or in one entry of sourceErrors, which
\* starts with "<source>: ", and not in sourcesAvailable; every entry of
\* sourceErrors is of one of the three; "local_db" is in sourcesAvailable,
\* once; and the items of a source are empty unless the source is in
\* sourcesAvailable.
C38_SourceAccounting ==
    collectRun.context # <<>> =>
        LET context == collectRun.context[1]
        IN  /\ \A src \in {"email", "calendar", "tasks"} :
                   /\ Count(context.sourcesAvailable, src)
                          + Cardinality(ErrorsOf(context, src)) = 1
                   /\ ContextItems(context, src) # <<>> =>
                          Has(context.sourcesAvailable, src)
            /\ Count(context.sourcesAvailable, "local_db") = 1
            /\ Len(context.sourcesAvailable) + Len(context.sourceErrors) = 4
            /\ \A i \in DOMAIN context.sourceErrors :
                   context.sourceErrors[i][1] \in {"email", "calendar", "tasks"}

\* the mail and the calendar fetch failed and the task fetch returned one
\* task: the context lists tasks and local_db as available and holds the two
\* failures
C38_Witness ==
    /\ collectRun.context # <<>>
    /\ collectRun.context[1].sourcesAvailable = <<"tasks", "local_db">>
    /\ Len(collectRun.context[1].sourceErrors) = 2
    /\ collectRun.context[1].sourceErrors[1][1] = "email"
    /\ collectRun.context[1].sourceErrors[2][1] = "calendar"
    /\ Len(collectRun.context[1].tasks) = 1
    /\ collectRun.context[1].emails = <<>>

\* the short ids
ShortIds == {sha256hex8(fullId) : fullId \in FullIds} \cup {"00000000"}

\* a button of the keyboard is pressed in this step, with callback data `data`
Pressed(data) ==
    /\ Len(storeCalls') = Len(storeCalls) + 1
    /\ storeCalls'[Len(storeCalls')].op = data.action
    /\ storeCalls'[Len(storeCalls')].id = data.arg

\* the short id of every button sent resolves to the id the button was made
\* for
RoundTrip ==
    \A i \in DOMAIN keyboard :
        resolveId(keyboard[i].data.arg) = keyboard[i].button.arg

\* a short id that no button carries resolves to itself
UnregisteredResolveToSelf ==
    \A shortId \in ShortIds :
        (\A i \in DOMAIN keyboard : keyboard[i].data.arg # shortId) =>
            resolveId(shortId) = shortId

\* C39: whatever ids were shortened since the process started, the short id
\* of every button sent resolves to the full id the button was made for, so
\* that a press of a snooze button leaves a row of that id in the snooze
\* store; and a short id that no call of shortenId returned resolves to
\* itself.
C39_CallbackIdRoundTrip ==
    [][/\ RoundTrip'
       /\ \A i \in DOMAIN keyboard :
              (Pressed(keyboard[i].data) /\ keyboard[i].data.action \in {"se:", "st:"}) =>
                  \E j \in DOMAIN snoozed_items' :
                      snoozed_items'[j].source_id = keyboard[i].button.arg
       /\ UnregisteredResolveToSelf']_vars

\* the buttons of task-93411 and task-137700 were sent, both with the short
\* id dd808717; the button of the first was pressed and the store holds a
\* row of the second task only
C39_PressActsOnOtherItem ==
    /\ Len(keyboard) = 2
    /\ keyboard[1].button.arg = "task-93411"
    /\ keyboard[2].button.arg = "task-137700"
    /\ keyboard[1].data = keyboard[2].data
    /\ storeCalls # <<>>
    /\ LastCall.op = "st:"
    /\ LastCall.id = keyboard[1].data.arg
    /\ Len(snoozed_items) = 1
    /\ snoozed_items[1].source_id = "task-137700"

\* while no two ids that were shortened share their hash, every short id
\* sent resolves to its full id
C39_RoundTripWithoutCollision ==
    (\A i, j \in DOMAIN keyboard :
         keyboard[i].data.arg = keyboard[j].data.arg =>
             keyboard[i].button.arg = keyboard[j].button.arg) =>
        \A i \in DOMAIN keyboard :
            resolveId(keyboard[i].data.arg) = keyboard[i].button.arg

=============================================================================
